---- MODULE Spec2Model ----
(***************************************************************************)
(* Model of the MedQA multi-agent recruitment and consensus protocol:      *)
(*   - the response parsers (SBAR assessment, vote, final decision),       *)
(*   - the recruiter (relevance scoring and flat-panel recruitment),       *)
(*   - the team lead's moderate-complexity coordination loop.              *)
(* Text is modelled as a sequence of one-character strings, so that the    *)
(* parsers are computed character by character as the Python code does.    *)
(***************************************************************************)
EXTENDS Integers, Sequences, FiniteSets, TLC

VARIABLES
    \* parsers: the response text, the option keys, the parser applied, its result
    response, options, parser, parsed,
    \* recruiter: the question, the calls made on it and what they returned
    question, recruiter_calls, relevance_scores, team, teams,
    \* coordinate_moderate_complexity_case: the position in the method and its
    \* locals max_rounds, r, consensus, consensus_result and the loop index of
    \* the silent-assessment phase
    pc, max_rounds, r, consensus, consensus_result, member_idx,
    \* its local initial_consensus, the decision prompt it sends to the model,
    \* and whether the lead has coordinated a case before this one
    initial_consensus, decision_prompt, earlier_case,
    \* the lead's fields
    silent_assessments, discussion_logs, interaction_history, final_decision,
    \* each member's fields silent_assessment, vote and discussion_history
    member_assessment, member_vote, discussion_history,
    \* what the case has done so far, in order (a record of the execution)
    events

parseVars == <<response, options, parser, parsed>>
recruitVars == <<question, recruiter_calls, relevance_scores, team, teams>>
leadVars == <<silent_assessments, discussion_logs, interaction_history, final_decision>>
memberVars == <<member_assessment, member_vote, discussion_history>>
coordVars == <<pc, max_rounds, r, consensus, consensus_result, member_idx,
               initial_consensus, decision_prompt, earlier_case,
               leadVars, memberVars, events>>
vars == <<parseVars, recruitVars, coordVars>>

(***************************************************************************)
(* Python string primitives                                                *)
(***************************************************************************)
None == "None"

LowerLetters == <<"a","b","c","d","e","f","g","h","i","j","k","l","m","n","o","p","q","r","s","t","u","v","w","x","y","z">>
UpperLetters == <<"A","B","C","D","E","F","G","H","I","J","K","L","M","N","O","P","Q","R","S","T","U","V","W","X","Y","Z">>

Range(s) == {s[i] : i \in 1..Len(s)}

Min(S) == CHOOSE x \in S : \A y \in S : x <= y
Max(S) == CHOOSE x \in S : \A y \in S : x >= y

\* str.upper() on one character (ASCII letters only)
upper_char(c) ==
    IF \E i \in 1..26 : LowerLetters[i] = c
    THEN UpperLetters[CHOOSE i \in 1..26 : LowerLetters[i] = c]
    ELSE c

\* str.lower() on one character
lower_char(c) ==
    IF \E i \in 1..26 : UpperLetters[i] = c
    THEN LowerLetters[CHOOSE i \in 1..26 : UpperLetters[i] = c]
    ELSE c

upper(s) == [i \in 1..Len(s) |-> upper_char(s[i])]
lower(s) == [i \in 1..Len(s) |-> lower_char(s[i])]

\* pat in s
contains(s, pat) ==
    \E i \in 0..(Len(s) - Len(pat)) : SubSeq(s, i + 1, i + Len(pat)) = pat

\* s.count(ch) for a one-character ch
count(s, ch) == Cardinality({i \in 1..Len(s) : s[i] = ch})

Whitespace == {" ", "\t", "\n", "\r", "\f"}

\* s.strip()
strip(s) ==
    LET nz == {i \in 1..Len(s) : s[i] \notin Whitespace}
    IN  IF nz = {} THEN <<>> ELSE SubSeq(s, Min(nz), Max(nz))

\* s.split('\n')
RECURSIVE split_lines(_)
split_lines(s) ==
    LET nl == {i \in 1..Len(s) : s[i] = "\n"}
    IN  IF nl = {} THEN <<s>>
        ELSE <<SubSeq(s, 1, Min(nl) - 1)>> \o split_lines(SubSeq(s, Min(nl) + 1, Len(s)))

\* line.split(':', 1)[1].strip() if ':' in line else ""
after_colon(line) ==
    LET cs == {i \in 1..Len(line) : line[i] = ":"}
    IN  IF cs = {} THEN <<>> ELSE strip(SubSeq(line, Min(cs) + 1, Len(line)))

(***************************************************************************)
(* SBAR section extraction, shared by the three _parse_sbar definitions    *)
(***************************************************************************)
HDR_SITUATION == <<"S","I","T","U","A","T","I","O","N",":">>
HDR_BACKGROUND == <<"B","A","C","K","G","R","O","U","N","D",":">>
HDR_ASSESSMENT == <<"A","S","S","E","S","S","M","E","N","T",":">>
HDR_RECOMMENDATION == <<"R","E","C","O","M","M","E","N","D","A","T","I","O","N",":">>

\* the section a line opens, or None
section_header(line) ==
    LET line_upper == upper(line)
    IN  IF contains(line_upper, HDR_SITUATION) THEN "situation"
        ELSE IF contains(line_upper, HDR_BACKGROUND) THEN "background"
        ELSE IF contains(line_upper, HDR_ASSESSMENT) THEN "assessment"
        ELSE IF contains(line_upper, HDR_RECOMMENDATION) THEN "recommendation"
        ELSE None

empty_sbar(resp) ==
    [situation |-> <<>>, background |-> <<>>, assessment |-> <<>>,
     recommendation |-> <<>>, recommended_answer |-> None, raw_response |-> resp]

\* the "for line in lines" loop of _parse_sbar
RECURSIVE sbar_sections(_, _, _, _)
sbar_sections(lines, i, current_section, sbar) ==
    IF i > Len(lines) THEN sbar
    ELSE LET line == lines[i]
             h == section_header(line)
         IN  IF h # None
             THEN sbar_sections(lines, i + 1, h, [sbar EXCEPT ![h] = after_colon(line)])
             ELSE IF current_section # None
             THEN sbar_sections(lines, i + 1, current_section,
                      [sbar EXCEPT ![current_section] = @ \o <<" ">> \o strip(line)])
             ELSE sbar_sections(lines, i + 1, current_section, sbar)

(***************************************************************************)
(* SpecialistAgent._parse_sbar                                             *)
(***************************************************************************)
ANSWER_PREFIX == <<"A","n","s","w","e","r",":"," ">>

\* f"{key})" in response or f"({key})" in response or f"Answer: {key}" in response
specialist_key_matches(resp, key) ==
    \/ contains(resp, <<key, ")">>)
    \/ contains(resp, <<"(", key, ")">>)
    \/ contains(resp, ANSWER_PREFIX \o <<key>>)

\* for key in options.keys(): ... break
specialist_recommended_answer(resp, opts) ==
    LET hits == {k \in 1..Len(opts) : specialist_key_matches(resp, opts[k])}
    IN  IF hits = {} THEN None ELSE opts[Min(hits)]

Specialist_parse_sbar(resp, opts) ==
    [sbar_sections(split_lines(resp), 1, None, empty_sbar(resp))
        EXCEPT !.recommended_answer = specialist_recommended_answer(resp, opts)]

(***************************************************************************)
(* TeamLeadAgent._parse_sbar                                               *)
(***************************************************************************)
\* the capture group [A-E] of every answer pattern
LettersAE == {"A", "B", "C", "D", "E"}

\* \s of the re module
RegexSpace == {" ", "\t", "\n", "\r", "\f"}

\* answer_patterns: a literal, optional \s*, optional "(", the captured letter,
\* and a closing ")" that is required, optional or not part of the pattern
answer_patterns == <<
    [lit |-> <<"A","n","s","w","e","r",":">>, ws |-> TRUE,  open |-> TRUE,  close |-> "optional", anchored |-> FALSE],
    [lit |-> <<"O","p","t","i","o","n">>,  ws |-> TRUE,  open |-> FALSE, close |-> "none",     anchored |-> FALSE],
    [lit |-> <<"(">>,       ws |-> FALSE, open |-> FALSE, close |-> "required", anchored |-> FALSE],
    [lit |-> <<>>,        ws |-> FALSE, open |-> FALSE, close |-> "required", anchored |-> TRUE],
    [lit |-> <<"c","h","o","o","s","e">>,  ws |-> TRUE,  open |-> FALSE, close |-> "none",     anchored |-> FALSE],
    [lit |-> <<"s","e","l","e","c","t">>,  ws |-> TRUE,  open |-> FALSE, close |-> "none",     anchored |-> FALSE] >>

skip_ws(s, j) ==
    LET nws == {k \in j..Len(s) : s[k] \notin RegexSpace}
    IN  IF nws = {} THEN Len(s) + 1 ELSE Min(nws)

\* a match of pattern p starting at index i of s: <<captured letter, index after
\* the match>>, or <<>> when p does not match there
match_at(s, i, p) ==
    LET n == Len(s)
        litEnd == i + Len(p.lit) - 1
        litOk == /\ litEnd <= n
                 /\ SubSeq(s, i, litEnd) = p.lit
                 /\ (p.anchored => i = 1)
        j1 == IF p.ws THEN skip_ws(s, litEnd + 1) ELSE litEnd + 1
        j2 == IF p.open /\ j1 <= n /\ s[j1] = "(" THEN j1 + 1 ELSE j1
        capOk == j2 <= n /\ s[j2] \in LettersAE
        closeHere == j2 + 1 <= n /\ s[j2 + 1] = ")"
    IN  IF ~litOk \/ ~capOk THEN <<>>
        ELSE IF p.close = "required"
             THEN (IF closeHere THEN <<s[j2], j2 + 2>> ELSE <<>>)
        ELSE IF p.close = "optional"
             THEN <<s[j2], IF closeHere THEN j2 + 2 ELSE j2 + 1>>
        ELSE <<s[j2], j2 + 1>>

\* re.findall(pattern, s): the captures of the non-overlapping matches, left to right
RECURSIVE findall_from(_, _, _)
findall_from(s, i, p) ==
    IF i > Len(s) THEN <<>>
    ELSE LET m == match_at(s, i, p)
         IN  IF m = <<>> THEN findall_from(s, i + 1, p)
             ELSE <<m[1]>> \o findall_from(s, m[2], p)

findall(p, s) == findall_from(s, 1, p)

\* the text the answer patterns are matched against
lead_pattern_text(resp) == upper(resp)

\* for pattern in answer_patterns: the last match of the first pattern whose last
\* match is a valid option
RECURSIVE lead_pattern_answer(_, _, _)
lead_pattern_answer(text, opts, k) ==
    IF k > Len(answer_patterns) THEN None
    ELSE LET matches == findall(answer_patterns[k], text)
         IN  IF matches # <<>> /\ matches[Len(matches)] \in Range(opts)
             THEN matches[Len(matches)]
             ELSE lead_pattern_answer(text, opts, k + 1)

\* max(option_counts, key=option_counts.get): the first key with the highest count
lead_fallback_answer(resp, opts) ==
    LET response_upper == upper(resp)
        cnt(k) == count(response_upper, opts[k])
        best == CHOOSE k \in 1..Len(opts) :
                    /\ \A j \in 1..Len(opts) : cnt(j) <= cnt(k)
                    /\ \A j \in 1..(k - 1) : cnt(j) < cnt(k)
    IN  IF Len(opts) = 0 THEN None
        ELSE IF cnt(best) > 0 THEN opts[best] ELSE None

lead_recommended_answer(resp, opts) ==
    LET a == lead_pattern_answer(lead_pattern_text(resp), opts, 1)
    IN  IF a # None THEN a ELSE lead_fallback_answer(resp, opts)

TeamLead_parse_sbar(resp, opts) ==
    [sbar_sections(split_lines(resp), 1, None, empty_sbar(resp))
        EXCEPT !.recommended_answer = lead_recommended_answer(resp, opts)]

(***************************************************************************)
(* SpecialistAgent._parse_vote                                             *)
(***************************************************************************)
HDR_VOTE == <<"V","O","T","E",":">>
HDR_CONFIDENCE == <<"C","O","N","F","I","D","E","N","C","E",":">>
HDR_RATIONALE == <<"R","A","T","I","O","N","A","L","E",":">>

Digits == <<"0","1","2","3","4","5","6","7","8","9">>

digit_value(c) == (CHOOSE i \in 1..10 : Digits[i] = c) - 1

\* the value of a digit string: m * 10^-e with e fractional digits
RECURSIVE digits_value(_)
digits_value(ds) ==
    IF ds = <<>> THEN 0
    ELSE 10 * digits_value(SubSeq(ds, 1, Len(ds) - 1)) + digit_value(ds[Len(ds)])

\* float(conf_str) for plain decimal numerals ("0.85", "1", ".5"): ok with the
\* value m / 10^e, or not ok where float() raises ValueError
parse_float(str) ==
    LET dots == {i \in 1..Len(str) : str[i] = "."}
        digs == SelectSeq(str, LAMBDA c : c \in Range(Digits))
    IN  IF /\ Cardinality(dots) <= 1
           /\ digs # <<>>
           /\ \A i \in 1..Len(str) : str[i] = "." \/ str[i] \in Range(Digits)
        THEN [ok |-> TRUE, m |-> digits_value(digs),
              e |-> IF dots = {} THEN 0 ELSE Len(str) - Min(dots)]
        ELSE [ok |-> FALSE, m |-> 0, e |-> 0]

\* "confidence": 0.5
DEFAULT_CONFIDENCE == [m |-> 5, e |-> 1]

\* the letters a VOTE line is searched for
VOTE_LETTERS == {"A", "B", "C", "D", "E"}

\* for char in line: if char.upper() in [...]: choice = char.upper(); break
first_letter_in(line, letters) ==
    LET hits == {i \in 1..Len(line) : upper_char(line[i]) \in letters}
    IN  IF hits = {} THEN None ELSE upper_char(line[Min(hits)])

RECURSIVE vote_lines(_, _, _)
vote_lines(lines, i, vote_data) ==
    IF i > Len(lines) THEN vote_data
    ELSE LET line == lines[i]
             line_upper == upper(line)
         IN  IF contains(line_upper, HDR_VOTE)
             THEN LET c == first_letter_in(line, VOTE_LETTERS)
                  IN  vote_lines(lines, i + 1,
                          IF c = None THEN vote_data ELSE [vote_data EXCEPT !.choice = c])
             ELSE IF contains(line_upper, HDR_CONFIDENCE)
             THEN LET f == parse_float(after_colon(line))
                  IN  vote_lines(lines, i + 1,
                          IF ~f.ok THEN vote_data
                          ELSE [vote_data EXCEPT !.confidence = [m |-> f.m, e |-> f.e]])
             ELSE IF contains(line_upper, HDR_RATIONALE)
             THEN vote_lines(lines, i + 1, [vote_data EXCEPT !.rationale = after_colon(line)])
             ELSE vote_lines(lines, i + 1, vote_data)

Specialist_parse_vote(resp) ==
    vote_lines(split_lines(resp), 1,
        [choice |-> None, confidence |-> DEFAULT_CONFIDENCE, rationale |-> <<>>,
         raw_response |-> resp])

(***************************************************************************)
(* TeamLeadAgent._parse_final_decision                                     *)
(***************************************************************************)
HDR_DECISION == <<"D","E","C","I","S","I","O","N",":">>
HDR_PRIMARY_RATIONALE == <<"P","R","I","M","A","R","Y"," ","R","A","T","I","O","N","A","L","E",":">>
HDR_MINORITY == <<"M","I","N","O","R","I","T","Y"," ","C","O","N","S","I","D","E","R","A","T","I","O","N",":">>
HDR_CONSENSUS_STATUS == <<"C","O","N","S","E","N","S","U","S"," ","S","T","A","T","U","S",":">>
HDR_FOLLOW_UP == <<"F","O","L","L","O","W","-","U","P",":">>

decision_header(line_upper) ==
    IF contains(line_upper, HDR_PRIMARY_RATIONALE) THEN "rationale"
    ELSE IF contains(line_upper, HDR_MINORITY) THEN "minority_consideration"
    ELSE IF contains(line_upper, HDR_CONSENSUS_STATUS) THEN "consensus_status"
    ELSE IF contains(line_upper, HDR_FOLLOW_UP) THEN "follow_up"
    ELSE None

RECURSIVE decision_lines(_, _, _, _, _)
decision_lines(lines, i, current_section, decision, opts) ==
    IF i > Len(lines) THEN decision
    ELSE LET line == lines[i]
             line_upper == upper(line)
             h == decision_header(line_upper)
         IN  IF contains(line_upper, HDR_DECISION)
             THEN LET c == first_letter_in(line, Range(opts))
                  IN  decision_lines(lines, i + 1, current_section,
                          IF c = None THEN decision ELSE [decision EXCEPT !.choice = c], opts)
             ELSE IF h # None
             THEN decision_lines(lines, i + 1, h, [decision EXCEPT ![h] = after_colon(line)], opts)
             ELSE IF current_section # None /\ strip(line) # <<>>
             THEN decision_lines(lines, i + 1, current_section,
                      [decision EXCEPT ![current_section] = @ \o <<" ">> \o strip(line)], opts)
             ELSE decision_lines(lines, i + 1, current_section, decision, opts)

TeamLead_parse_final_decision(resp, opts) ==
    decision_lines(split_lines(resp), 1, None,
        [choice |-> None, rationale |-> <<>>, minority_consideration |-> <<>>,
         consensus_status |-> <<>>, follow_up |-> <<>>, raw_response |-> resp], opts)

(***************************************************************************)
(* Exact arithmetic on the scores and weights (Python floats are modelled  *)
(* as the rationals they approximate)                                      *)
(***************************************************************************)
RECURSIVE GCD(_, _)
GCD(a, b) == IF b = 0 THEN a ELSE GCD(b, a % b)

\* the rational n/d in lowest terms, d > 0
Rat(n, d) ==
    LET g == GCD(IF n < 0 THEN -n ELSE n, d)
    IN  [n |-> n \div g, d |-> d \div g]

RAdd(a, b) == Rat(a.n * b.d + b.n * a.d, a.d * b.d)
RMul(a, b) == Rat(a.n * b.n, a.d * b.d)
RDiv(a, b) == Rat(a.n * b.d, a.d * b.n)
RLess(a, b) == a.n * b.d < b.n * a.d

RECURSIVE RSum(_)
RSum(seq) == IF seq = <<>> THEN Rat(0, 1) ELSE RAdd(seq[1], RSum(Tail(seq)))

(***************************************************************************)
(* MedicalSpecialties.SPECIALTIES, in dict order (expertise texts omitted) *)
(***************************************************************************)
SPECIALTIES == <<
    [specialty |-> <<"P","r","i","m","a","r","y"," ","C","a","r","e"," ","P","h","y","s","i","c","i","a","n">>,
     keywords |-> << <<"g","e","n","e","r","a","l">>, <<"r","o","u","t","i","n","e">>, <<"c","h","e","c","k","u","p">>, <<"c","o","m","m","o","n">>, <<"p","r","e","v","e","n","t","i","o","n">> >>],
    [specialty |-> <<"I","n","t","e","r","n","a","l"," ","M","e","d","i","c","i","n","e">>,
     keywords |-> << <<"a","d","u","l","t">>, <<"c","h","r","o","n","i","c">>, <<"c","o","m","p","l","e","x">>, <<"s","y","s","t","e","m","i","c">> >>],
    [specialty |-> <<"C","a","r","d","i","o","l","o","g","i","s","t">>,
     keywords |-> << <<"h","e","a","r","t">>, <<"c","a","r","d","i","a","c">>, <<"c","h","e","s","t"," ","p","a","i","n">>, <<"h","y","p","e","r","t","e","n","s","i","o","n">>, <<"E","C","G">>, <<"b","l","o","o","d"," ","p","r","e","s","s","u","r","e">> >>],
    [specialty |-> <<"P","u","l","m","o","n","o","l","o","g","i","s","t">>,
     keywords |-> << <<"l","u","n","g">>, <<"b","r","e","a","t","h","i","n","g">>, <<"r","e","s","p","i","r","a","t","o","r","y">>, <<"c","o","u","g","h">>, <<"d","y","s","p","n","e","a">>, <<"a","s","t","h","m","a">> >>],
    [specialty |-> <<"G","a","s","t","r","o","e","n","t","e","r","o","l","o","g","i","s","t">>,
     keywords |-> << <<"s","t","o","m","a","c","h">>, <<"a","b","d","o","m","e","n">>, <<"d","i","g","e","s","t","i","v","e">>, <<"l","i","v","e","r">>, <<"b","o","w","e","l">>, <<"n","a","u","s","e","a">> >>],
    [specialty |-> <<"N","e","p","h","r","o","l","o","g","i","s","t">>,
     keywords |-> << <<"k","i","d","n","e","y">>, <<"r","e","n","a","l">>, <<"c","r","e","a","t","i","n","i","n","e">>, <<"d","i","a","l","y","s","i","s">>, <<"u","r","i","n","e">> >>],
    [specialty |-> <<"N","e","u","r","o","l","o","g","i","s","t">>,
     keywords |-> << <<"b","r","a","i","n">>, <<"h","e","a","d","a","c","h","e">>, <<"s","e","i","z","u","r","e">>, <<"n","e","r","v","o","u","s">>, <<"s","t","r","o","k","e">>, <<"n","e","u","r","o","l","o","g","i","c","a","l">> >>],
    [specialty |-> <<"E","n","d","o","c","r","i","n","o","l","o","g","i","s","t">>,
     keywords |-> << <<"d","i","a","b","e","t","e","s">>, <<"t","h","y","r","o","i","d">>, <<"h","o","r","m","o","n","e">>, <<"e","n","d","o","c","r","i","n","e">>, <<"m","e","t","a","b","o","l","i","c">> >>],
    [specialty |-> <<"G","e","n","e","r","a","l"," ","S","u","r","g","e","o","n">>,
     keywords |-> << <<"s","u","r","g","e","r","y">>, <<"s","u","r","g","i","c","a","l">>, <<"t","r","a","u","m","a">>, <<"a","c","u","t","e">>, <<"o","p","e","r","a","t","i","o","n">> >>],
    [specialty |-> <<"O","r","t","h","o","p","e","d","i","c"," ","S","u","r","g","e","o","n">>,
     keywords |-> << <<"b","o","n","e">>, <<"j","o","i","n","t">>, <<"f","r","a","c","t","u","r","e">>, <<"o","r","t","h","o","p","e","d","i","c">>, <<"m","u","s","c","u","l","o","s","k","e","l","e","t","a","l">> >>],
    [specialty |-> <<"P","s","y","c","h","i","a","t","r","i","s","t">>,
     keywords |-> << <<"m","e","n","t","a","l">>, <<"p","s","y","c","h","i","a","t","r","i","c">>, <<"d","e","p","r","e","s","s","i","o","n">>, <<"a","n","x","i","e","t","y">>, <<"b","e","h","a","v","i","o","r","a","l">> >>],
    [specialty |-> <<"D","e","r","m","a","t","o","l","o","g","i","s","t">>,
     keywords |-> << <<"s","k","i","n">>, <<"r","a","s","h">>, <<"d","e","r","m","a","t","o","l","o","g","y">>, <<"l","e","s","i","o","n">>, <<"m","o","l","e">> >>],
    [specialty |-> <<"H","e","m","a","t","o","l","o","g","i","s","t">>,
     keywords |-> << <<"b","l","o","o","d">>, <<"a","n","e","m","i","a">>, <<"b","l","e","e","d","i","n","g">>, <<"c","l","o","t","t","i","n","g">>, <<"h","e","m","a","t","o","l","o","g","y">> >>],
    [specialty |-> <<"I","n","f","e","c","t","i","o","u","s"," ","D","i","s","e","a","s","e">>,
     keywords |-> << <<"i","n","f","e","c","t","i","o","n">>, <<"f","e","v","e","r">>, <<"t","r","o","p","i","c","a","l">>, <<"a","n","t","i","b","i","o","t","i","c">>, <<"v","i","r","u","s">> >>],
    [specialty |-> <<"R","h","e","u","m","a","t","o","l","o","g","i","s","t">>,
     keywords |-> << <<"a","r","t","h","r","i","t","i","s">>, <<"a","u","t","o","i","m","m","u","n","e">>, <<"j","o","i","n","t"," ","p","a","i","n">>, <<"i","n","f","l","a","m","m","a","t","i","o","n">>, <<"r","h","e","u","m","a","t","i","c">> >>],
    [specialty |-> <<"O","n","c","o","l","o","g","i","s","t">>,
     keywords |-> << <<"c","a","n","c","e","r">>, <<"t","u","m","o","r">>, <<"o","n","c","o","l","o","g","y">>, <<"c","h","e","m","o","t","h","e","r","a","p","y">>, <<"m","a","l","i","g","n","a","n","c","y">> >>],
    [specialty |-> <<"E","m","e","r","g","e","n","c","y"," ","M","e","d","i","c","i","n","e">>,
     keywords |-> << <<"e","m","e","r","g","e","n","c","y">>, <<"a","c","u","t","e">>, <<"t","r","a","u","m","a">>, <<"u","r","g","e","n","t">>, <<"c","r","i","t","i","c","a","l">> >>],
    [specialty |-> <<"P","e","d","i","a","t","r","i","c","i","a","n">>,
     keywords |-> << <<"c","h","i","l","d">>, <<"p","e","d","i","a","t","r","i","c">>, <<"i","n","f","a","n","t">>, <<"d","e","v","e","l","o","p","m","e","n","t","a","l">>, <<"g","r","o","w","t","h">> >>],
    [specialty |-> <<"R","a","d","i","o","l","o","g","i","s","t">>,
     keywords |-> << <<"i","m","a","g","i","n","g">>, <<"X","-","r","a","y">>, <<"C","T">>, <<"M","R","I">>, <<"r","a","d","i","o","l","o","g","y">>, <<"s","c","a","n">> >>],
    [specialty |-> <<"P","a","t","h","o","l","o","g","i","s","t">>,
     keywords |-> << <<"b","i","o","p","s","y">>, <<"l","a","b">>, <<"p","a","t","h","o","l","o","g","y">>, <<"t","i","s","s","u","e">>, <<"m","i","c","r","o","s","c","o","p","i","c">> >>] >>

(***************************************************************************)
(* RecruiterAgent.calculate_relevance_scores                               *)
(***************************************************************************)
critical_terms == <<
    [term |-> <<"e","m","e","r","g","e","n","c","y">>, specialists |-> { <<"E","m","e","r","g","e","n","c","y"," ","M","e","d","i","c","i","n","e">>, <<"T","r","a","u","m","a"," ","S","u","r","g","e","o","n">> }],
    [term |-> <<"c","h","i","l","d">>,     specialists |-> { <<"P","e","d","i","a","t","r","i","c","i","a","n">>, <<"P","e","d","i","a","t","r","i","c"," ","S","p","e","c","i","a","l","i","s","t">> }],
    [term |-> <<"c","a","n","c","e","r">>,    specialists |-> { <<"O","n","c","o","l","o","g","i","s","t">>, <<"H","e","m","a","t","o","l","o","g","i","s","t">>, <<"R","a","d","i","o","l","o","g","i","s","t">> }],
    [term |-> <<"h","e","a","r","t">>,     specialists |-> { <<"C","a","r","d","i","o","l","o","g","i","s","t">>, <<"C","a","r","d","i","a","c"," ","S","u","r","g","e","o","n">> }],
    [term |-> <<"b","r","a","i","n">>,     specialists |-> { <<"N","e","u","r","o","l","o","g","i","s","t">>, <<"N","e","u","r","o","s","u","r","g","e","o","n">> }],
    [term |-> <<"i","n","f","e","c","t","i","o","n">>, specialists |-> { <<"I","n","f","e","c","t","i","o","u","s"," ","D","i","s","e","a","s","e">>, <<"I","n","t","e","r","n","a","l"," ","M","e","d","i","c","i","n","e">> }] >>

\* keyword_score of one catalog entry: 2 per keyword found in the lower-cased
\* qtext, 5 for the specialty's own name, 3 per critical term naming it
keyword_score(info, question_lower) ==
    2 * Cardinality({k \in 1..Len(info.keywords) :
                        contains(question_lower, info.keywords[k])})
    + (IF contains(question_lower, lower(info.specialty)) THEN 5 ELSE 0)
    + 3 * Cardinality({t \in 1..Len(critical_terms) :
                        /\ contains(question_lower, critical_terms[t].term)
                        /\ info.specialty \in critical_terms[t].specialists})

\* a faulty variant of keeps_score: a threshold that drops single-keyword matches
keeps_score_above_two(score) == score > 2

\* if keyword_score > 0: scores[specialty] = keyword_score
keeps_score(score) == score > 0

\* the scores dict, in insertion (catalog) order
raw_scores(qtext) ==
    LET question_lower == lower(qtext)
        all == [i \in 1..Len(SPECIALTIES) |->
                   [specialty |-> SPECIALTIES[i].specialty,
                    score |-> keyword_score(SPECIALTIES[i], question_lower)]]
    IN  SelectSeq(all, LAMBDA e : keeps_score(e.score))

\* a faulty variant of max_score: normalising by more than the maximum
max_score_plus_one(scores) ==
    IF scores = <<>> THEN 1 ELSE Max({scores[i].score : i \in 1..Len(scores)}) + 1

\* max_score = max(scores.values()) if scores else 1
max_score(scores) ==
    IF scores = <<>> THEN 1 ELSE Max({scores[i].score : i \in 1..Len(scores)})

\* normalized_scores = {k: v/max_score for k, v in scores.items()}
normalize(scores) ==
    [i \in 1..Len(scores) |->
        [specialty |-> scores[i].specialty,
         score |-> Rat(scores[i].score, max_score(scores))]]

calculate_relevance_scores(qtext) == normalize(raw_scores(qtext))

(***************************************************************************)
(* RecruiterAgent.recruit_for_moderate_complexity                          *)
(***************************************************************************)
\* sorted(items, key=lambda x: x[1], reverse=True): stable, equal scores keep
\* their order
RECURSIVE sorted_by_score_desc(_)
sorted_by_score_desc(items) ==
    IF items = <<>> THEN <<>>
    ELSE LET n == Len(items)
             init == sorted_by_score_desc(SubSeq(items, 1, n - 1))
             x == items[n]
             lower_idx == {j \in 1..Len(init) : RLess(init[j].score, x.score)}
             pos == IF lower_idx = {} THEN Len(init) + 1 ELSE Min(lower_idx)
         IN  SubSeq(init, 1, pos - 1) \o <<x>> \o SubSeq(init, pos, Len(init))

occurrences(selected, specialty) ==
    Cardinality({j \in 1..Len(selected) : selected[j].specialty = specialty})

\* number of consulting specialists of a flat panel
NUM_SPECIALISTS == 4

\* sorted_specialists[:8]
TOP_CONSIDERED == 8

\* score > 0.8
highly_relevant(score) == RLess(Rat(8, 10), score)

\* the selection loop over the top 8: take a specialty while it has been taken
\* fewer than 2 times or scores above 0.8, stop at 4
RECURSIVE select_top(_, _, _)
select_top(sorted_specialists, i, selected) ==
    IF i > Len(sorted_specialists) \/ i > TOP_CONSIDERED
       \/ Len(selected) >= NUM_SPECIALISTS
    THEN selected
    ELSE LET e == sorted_specialists[i]
         IN  IF occurrences(selected, e.specialty) < 2 \/ highly_relevant(e.score)
             THEN select_top(sorted_specialists, i + 1, Append(selected, e))
             ELSE select_top(sorted_specialists, i + 1, selected)

\* relevance_scores.get(s, 0.1)
score_or_default(rel_scores, specialty) ==
    LET idx == {j \in 1..Len(rel_scores) : rel_scores[j].specialty = specialty}
    IN  IF idx = {} THEN Rat(1, 10) ELSE rel_scores[Min(idx)].score

\* a faulty variant of remaining_specialists: selected specialties are offered again
remaining_with_selected(selected, rel_scores) ==
    sorted_by_score_desc(
        [i \in 1..Len(SPECIALTIES) |->
            [specialty |-> SPECIALTIES[i].specialty,
             score |-> score_or_default(rel_scores, SPECIALTIES[i].specialty)]])

\* the specialties not yet selected, with their score, best first
remaining_specialists(selected, rel_scores) ==
    sorted_by_score_desc(
        SelectSeq([i \in 1..Len(SPECIALTIES) |->
                      [specialty |-> SPECIALTIES[i].specialty,
                       score |-> score_or_default(rel_scores, SPECIALTIES[i].specialty)]],
                  LAMBDA e : occurrences(selected, e.specialty) = 0))

\* a faulty variant of fill_with_diverse: the panel is not filled up
fill_with_nothing(selected, rel_scores) == selected

\* if len(selected_specialists) < 4: extend with remaining[:4 - len(...)]
fill_with_diverse(selected, rel_scores) ==
    IF Len(selected) < NUM_SPECIALISTS
    THEN LET remaining == remaining_specialists(selected, rel_scores)
             k == NUM_SPECIALISTS - Len(selected)
         IN  selected \o SubSeq(remaining, 1, IF k < Len(remaining) THEN k ELSE Len(remaining))
    ELSE selected

first_n(seq, n) == SubSeq(seq, 1, IF n < Len(seq) THEN n ELSE Len(seq))

\* a faulty variant of total_relevance: the sum runs over the scored specialists only
total_relevance_scored_only(selected) ==
    RSum(SelectSeq([j \in 1..Len(selected) |-> selected[j].score],
                   LAMBDA sc : sc # Rat(1, 10)))

\* total_relevance = sum(score for _, score in selected_specialists)
total_relevance(selected) ==
    RSum([j \in 1..Len(selected) |-> selected[j].score])

\* (score / total_relevance) * 0.7 if total_relevance > 0 else 0.175
decision_weight(score, total) ==
    IF total.n > 0 THEN RMul(RDiv(score, total), Rat(7, 10)) ELSE Rat(175, 1000)

LEAD_ID == <<"l","e","a","d","_","p","h","y","s","i","c","i","a","n">>
ROLE_LEAD == <<"T","e","a","m"," ","L","e","a","d">>
ROLE_CONSULTING == <<"C","o","n","s","u","l","t","i","n","g"," ","S","p","e","c","i","a","l","i","s","t">>

\* f"specialist_{i+1}" for i + 1 < 10
specialist_agent_id(n) == <<"s","p","e","c","i","a","l","i","s","t","_">> \o <<Digits[n + 1]>>

lead_entry ==
    [agent_id |-> LEAD_ID, specialty |-> <<"I","n","t","e","r","n","a","l"," ","M","e","d","i","c","i","n","e">>, role |-> ROLE_LEAD,
     relevance_score |-> Rat(9, 10), decision_weight |-> Rat(3, 10)]

recruit_for_moderate_complexity(qtext) ==
    LET rel_scores == calculate_relevance_scores(qtext)
        sorted_specialists == sorted_by_score_desc(rel_scores)
        selected_specialists ==
            fill_with_diverse(select_top(sorted_specialists, 1, <<>>), rel_scores)
        total == total_relevance(selected_specialists)
        chosen == first_n(selected_specialists, NUM_SPECIALISTS)
    IN  <<lead_entry>> \o
        [i \in 1..Len(chosen) |->
            [agent_id |-> specialist_agent_id(i),
             specialty |-> chosen[i].specialty,
             role |-> ROLE_CONSULTING,
             relevance_score |-> chosen[i].score,
             decision_weight |-> decision_weight(chosen[i].score, total)]]

(***************************************************************************)
(* RecruiterAgent.recruit_for_high_complexity                              *)
(***************************************************************************)
\* score > 0.7
very_relevant(score) == RLess(Rat(7, 10), score)

\* the pool loop: take a specialty while it has been taken fewer than 3 times
\* or scores above 0.7
RECURSIVE specialist_pool(_, _, _)
specialist_pool(sorted_specialists, i, pool) ==
    IF i > Len(sorted_specialists) THEN pool
    ELSE LET e == sorted_specialists[i]
         IN  IF occurrences(pool, e.specialty) < 3 \/ very_relevant(e.score)
             THEN specialist_pool(sorted_specialists, i + 1, Append(pool, e))
             ELSE specialist_pool(sorted_specialists, i + 1, pool)

\* a faulty variant of pool_specialty: a missing pool position is left blank
pool_specialty_or_blank(pool, k, default) ==
    IF Len(pool) > k THEN pool[k + 1].specialty ELSE <<>>

\* specialist_pool[k][0] if len(specialist_pool) > k else default
pool_specialty(pool, k, default) ==
    IF Len(pool) > k THEN pool[k + 1].specialty ELSE default

\* specialist_pool[k][1] if len(specialist_pool) > k else default
pool_score(pool, k, default) ==
    IF Len(pool) > k THEN pool[k + 1].score ELSE default

\* specialty in [s[0] for s in specialist_pool[:n]]
in_pool_prefix(pool, n, specialty) ==
    \E j \in 1..Len(first_n(pool, n)) : pool[j].specialty = specialty

\* relevance_scores.get(specialty, default)
relevance_get(rel_scores, specialty, default) ==
    LET idx == {j \in 1..Len(rel_scores) : rel_scores[j].specialty = specialty}
    IN  IF idx = {} THEN default ELSE rel_scores[Min(idx)].score

TEAM_IAT == <<"I","n","i","t","i","a","l"," ","A","s","s","e","s","s","m","e","n","t"," ","T","e","a","m"," ","(","I","A","T",")">>
TEAM_DET == <<"D","i","a","g","n","o","s","t","i","c"," ","E","v","i","d","e","n","c","e"," ","T","e","a","m"," ","(","D","E","T",")">>
TEAM_FRDT == <<"F","i","n","a","l"," ","R","e","v","i","e","w"," ","&"," ","D","e","c","i","s","i","o","n"," ","T","e","a","m"," ","(","F","R","D","T",")">>

initial_assessment_team(pool, rel_scores) ==
    << [agent_id |-> <<"i","a","t","_","l","e","a","d">>, specialty |-> <<"E","m","e","r","g","e","n","c","y"," ","M","e","d","i","c","i","n","e">>,
        role |-> <<"I","A","T"," ","T","e","a","m"," ","L","e","a","d">>,
        relevance_score |-> relevance_get(rel_scores, <<"E","m","e","r","g","e","n","c","y"," ","M","e","d","i","c","i","n","e">>, Rat(8, 10))],
       [agent_id |-> <<"i","a","t","_","m","e","m","b","e","r","_","1">>,
        specialty |-> pool_specialty(pool, 0, <<"I","n","t","e","r","n","a","l"," ","M","e","d","i","c","i","n","e">>),
        role |-> <<"I","A","T"," ","P","r","i","m","a","r","y"," ","S","p","e","c","i","a","l","i","s","t">>,
        relevance_score |-> pool_score(pool, 0, Rat(7, 10))],
       [agent_id |-> <<"i","a","t","_","m","e","m","b","e","r","_","2">>,
        specialty |-> pool_specialty(pool, 1, <<"P","r","i","m","a","r","y"," ","C","a","r","e"," ","P","h","y","s","i","c","i","a","n">>),
        role |-> <<"I","A","T"," ","S","e","c","o","n","d","a","r","y"," ","S","p","e","c","i","a","l","i","s","t">>,
        relevance_score |-> pool_score(pool, 1, Rat(6, 10))] >>

diagnostic_evidence_team(pool, rel_scores) ==
    << [agent_id |-> <<"d","e","t","_","l","e","a","d">>,
        specialty |-> IF ~in_pool_prefix(pool, 2, <<"P","a","t","h","o","l","o","g","i","s","t">>) THEN <<"P","a","t","h","o","l","o","g","i","s","t">>
                      ELSE pool_specialty(pool, 2, <<"P","a","t","h","o","l","o","g","i","s","t">>),
        role |-> <<"D","E","T"," ","T","e","a","m"," ","L","e","a","d">>,
        relevance_score |-> relevance_get(rel_scores, <<"P","a","t","h","o","l","o","g","i","s","t">>, Rat(7, 10))],
       [agent_id |-> <<"d","e","t","_","m","e","m","b","e","r","_","1">>,
        specialty |-> IF ~in_pool_prefix(pool, 3, <<"R","a","d","i","o","l","o","g","i","s","t">>) THEN <<"R","a","d","i","o","l","o","g","i","s","t">>
                      ELSE pool_specialty(pool, 3, <<"R","a","d","i","o","l","o","g","i","s","t">>),
        role |-> <<"D","E","T"," ","I","m","a","g","i","n","g"," ","S","p","e","c","i","a","l","i","s","t">>,
        relevance_score |-> relevance_get(rel_scores, <<"R","a","d","i","o","l","o","g","i","s","t">>, Rat(7, 10))],
       [agent_id |-> <<"d","e","t","_","m","e","m","b","e","r","_","2">>,
        specialty |-> pool_specialty(pool, 4, <<"H","e","m","a","t","o","l","o","g","i","s","t">>),
        role |-> <<"D","E","T"," ","L","a","b","o","r","a","t","o","r","y"," ","S","p","e","c","i","a","l","i","s","t">>,
        relevance_score |-> pool_score(pool, 4, Rat(6, 10))] >>

final_review_team(pool) ==
    << [agent_id |-> <<"f","r","d","t","_","l","e","a","d">>, specialty |-> <<"I","n","t","e","r","n","a","l"," ","M","e","d","i","c","i","n","e">>,
        role |-> <<"F","R","D","T"," ","S","e","n","i","o","r"," ","C","o","n","s","u","l","t","a","n","t">>, relevance_score |-> Rat(9, 10)],
       [agent_id |-> <<"f","r","d","t","_","m","e","m","b","e","r","_","1">>,
        specialty |-> pool_specialty(pool, 0, <<"O","n","c","o","l","o","g","i","s","t">>),
        role |-> <<"F","R","D","T"," ","P","r","i","m","a","r","y"," ","S","p","e","c","i","a","l","i","s","t">>,
        relevance_score |-> pool_score(pool, 0, Rat(7, 10))],
       [agent_id |-> <<"f","r","d","t","_","m","e","m","b","e","r","_","2">>, specialty |-> <<"C","l","i","n","i","c","a","l"," ","P","h","a","r","m","a","c","i","s","t">>,
        role |-> <<"F","R","D","T"," ","M","e","d","i","c","a","t","i","o","n"," ","S","p","e","c","i","a","l","i","s","t">>, relevance_score |-> Rat(8, 10)] >>

\* the teams dict, in insertion order
recruit_for_high_complexity(qtext) ==
    LET rel_scores == calculate_relevance_scores(qtext)
        sorted_specialists == sorted_by_score_desc(rel_scores)
        pool == specialist_pool(sorted_specialists, 1, <<>>)
    IN  << [name |-> TEAM_IAT, members |-> initial_assessment_team(pool, rel_scores)],
           [name |-> TEAM_DET, members |-> diagnostic_evidence_team(pool, rel_scores)],
           [name |-> TEAM_FRDT, members |-> final_review_team(pool)] >>

(***************************************************************************)
(* TeamLeadAgent: the state of the lead and of its team members            *)
(***************************************************************************)
\* TeamLeadAgent.__init__: agent_id = "lead_physician"
LEAD_AGENT_ID == "lead_physician"

\* agent ids of the SpecialistAgent members handed to set_team_members
MEMBER_AGENT_IDS ==
    <<"specialist_1", "specialist_2", "specialist_3", "specialist_4",
      "specialist_5", "specialist_6">>

\* number of team members (consultants of the flat panel)
NumMembers == NUM_SPECIALISTS

Members == 1..NumMembers

\* a threshold that 80% exactly does not reach
reaches_threshold_strictly(cnt, total) == cnt * 10 > 8 * total

\* self.consensus_threshold = 0.8, as count / total >= 0.8
reaches_threshold(cnt, total) == cnt * 10 >= 8 * total

\* dict assignment d[key] = value on a dict kept as a sequence in insertion order
dict_set(d, key, value) ==
    LET entry == [agent_id |-> key,
                  recommended_answer |-> value.recommended_answer,
                  error |-> value.error]
    IN  IF \E j \in 1..Len(d) : d[j].agent_id = key
        THEN [j \in 1..Len(d) |-> IF d[j].agent_id = key THEN entry ELSE d[j]]
        ELSE Append(d, entry)

\* the keys of Counter(values) in insertion order: each value at its first
\* occurrence
RECURSIVE counter_keys(_)
counter_keys(values) ==
    IF values = <<>> THEN <<>>
    ELSE LET init == counter_keys(SubSeq(values, 1, Len(values) - 1))
             v == values[Len(values)]
         IN  IF v \in Range(init) THEN init ELSE Append(init, v)

occurrences_of(values, v) == Cardinality({j \in 1..Len(values) : values[j] = v})

\* a faulty variant of most_common: the last inserted among equals
most_common_last_inserted(values) ==
    LET keys == counter_keys(values)
        best == CHOOSE k \in 1..Len(keys) :
                    /\ \A j \in 1..Len(keys) :
                          occurrences_of(values, keys[j]) <= occurrences_of(values, keys[k])
                    /\ \A j \in (k + 1)..Len(keys) :
                          occurrences_of(values, keys[j]) < occurrences_of(values, keys[k])
    IN  keys[best]

\* Counter(values).most_common(1)[0][0]: the highest count, the first inserted
\* among equals
most_common(values) ==
    LET keys == counter_keys(values)
        best == CHOOSE k \in 1..Len(keys) :
                    /\ \A j \in 1..Len(keys) :
                          occurrences_of(values, keys[j]) <= occurrences_of(values, keys[k])
                    /\ \A j \in 1..(k - 1) :
                          occurrences_of(values, keys[j]) < occurrences_of(values, keys[k])
    IN  keys[best]

(***************************************************************************)
(* TeamLeadAgent.check_initial_consensus                                   *)
(***************************************************************************)
\* the recommended answers that are present, in assessment order
initial_recommendations(assessments) ==
    LET all == [j \in 1..Len(assessments) |-> assessments[j].recommended_answer]
    IN  SelectSeq(all, LAMBDA a : a # None)

NO_RATE == Rat(0, 1)

check_initial_consensus(assessments) ==
    LET recommendations == initial_recommendations(assessments)
        total_votes == Len(recommendations)
        keys == counter_keys(recommendations)
        agreed == {k \in 1..Len(keys) :
                      reaches_threshold(occurrences_of(recommendations, keys[k]), total_votes)}
    IN  IF recommendations = <<>>
        THEN [has_consensus |-> FALSE, choice |-> None, agreement_rate |-> NO_RATE]
        ELSE IF agreed # {}
        THEN [has_consensus |-> TRUE, choice |-> keys[Min(agreed)],
              agreement_rate |->
                  Rat(occurrences_of(recommendations, keys[Min(agreed)]), total_votes)]
        ELSE [has_consensus |-> FALSE, choice |-> most_common(recommendations),
              agreement_rate |->
                  Rat(occurrences_of(recommendations, most_common(recommendations)),
                      total_votes)]

(***************************************************************************)
(* TeamLeadAgent.check_consensus                                           *)
(***************************************************************************)
\* the fixed default letter of the two preference helpers
DEFAULT_PREFERENCE == "A"

\* member.silent_assessment before generate_sbar_assessment has run
UNSET == "unset"

\* _get_lead_preference: assessment.get('recommended_answer', 'A') when the lead
\* has an assessment (the key is always present, so an absent answer is
\* returned as None), 'A' otherwise
get_lead_preference(assessments) ==
    LET mine == {j \in 1..Len(assessments) : assessments[j].agent_id = LEAD_AGENT_ID}
    IN  IF mine = {} THEN DEFAULT_PREFERENCE
        ELSE assessments[Min(mine)].recommended_answer

\* _quick_poll_member: the same for member.silent_assessment
quick_poll_member(silent_assessment) ==
    IF silent_assessment = UNSET THEN DEFAULT_PREFERENCE ELSE silent_assessment

\* current_votes.values(): the lead first, then the members in team order
current_votes(assessments, member_assessments) ==
    <<get_lead_preference(assessments)>> \o
    [i \in Members |-> quick_poll_member(member_assessments[i])]

check_consensus(assessments, member_assessments) ==
    LET votes == current_votes(assessments, member_assessments)
        majority_choice == most_common(votes)
        majority_count == occurrences_of(votes, majority_choice)
    IN  [has_consensus |-> reaches_threshold(majority_count, Len(votes)),
         agreement_rate |-> Rat(majority_count, Len(votes)),
         majority_choice |-> majority_choice,
         votes |-> votes]

\* dict(vote_counts): each polled value with its count, in order of first
\* occurrence
vote_distribution(votes) ==
    [k \in 1..Len(counter_keys(votes)) |->
        [choice |-> counter_keys(votes)[k],
         count |-> occurrences_of(votes, counter_keys(votes)[k])]]

NO_POLL ==
    [has_consensus |-> FALSE, agreement_rate |-> NO_RATE, majority_choice |-> None,
     votes |-> <<>>]

(***************************************************************************)
(* TeamLeadAgent.conduct_collaborative_discussion                          *)
(***************************************************************************)
\* conduct_round_robin_discussion: the class body defines it twice and the
\* second definition, which returns [], is the one bound to the name
conduct_round_robin_discussion == <<>>

\* the discussion point put to a speaker: "Please clarify your position on
\* ..." in the focused discussion, the problem-solving prompt with the
\* current preferences in later rounds
CLARIFY_POINT == [kind |-> "clarify", preferences |-> <<>>]
NO_POINT == [kind |-> "none", preferences |-> <<>>]

\* _identify_disagreements, answer_groups: the agent ids per recommended answer
\* (an absent answer is a group of its own), groups in order of first answer
group_of(assessments, answer) ==
    LET all == [j \in 1..Len(assessments) |-> assessments[j]]
    IN  [j \in 1..Len(SelectSeq(all, LAMBDA e : e.recommended_answer = answer)) |->
            SelectSeq(all, LAMBDA e : e.recommended_answer = answer)[j].agent_id]

answer_groups(assessments) ==
    LET keys == counter_keys([j \in 1..Len(assessments) |-> assessments[j].recommended_answer])
    IN  [k \in 1..Len(keys) |-> [answer |-> keys[k], agents |-> group_of(assessments, keys[k])]]

\* sorted(answer_groups.items(), key=lambda x: len(x[1]), reverse=True), stable
RECURSIVE sorted_by_size_desc(_)
sorted_by_size_desc(groups) ==
    IF groups = <<>> THEN <<>>
    ELSE LET n == Len(groups)
             init == sorted_by_size_desc(SubSeq(groups, 1, n - 1))
             x == groups[n]
             smaller == {j \in 1..Len(init) : Len(init[j].agents) < Len(x.agents)}
             pos == IF smaller = {} THEN Len(init) + 1 ELSE Min(smaller)
         IN  SubSeq(init, 1, pos - 1) \o <<x>> \o SubSeq(init, pos, Len(init))

\* the agents_involved of the one disagreement, as agent ids; <<>> when all
\* assessments give the same answer
agents_involved(assessments) ==
    LET groups == answer_groups(assessments)
        sorted_groups == sorted_by_size_desc(groups)
    IN  IF Len(groups) > 1 THEN sorted_groups[1].agents \o sorted_groups[2].agents
        ELSE <<>>

\* _get_agent_by_id gives a team member, the lead itself or None; only a
\* SpecialistAgent has participate_in_open_discussion
can_participate_in_open_discussion(agent_id) ==
    \E i \in Members : MEMBER_AGENT_IDS[i] = agent_id

\* the speakers of the focused discussion up to the first agent that cannot
\* take part, and whether the call on that agent raises AttributeError
focused_discussion(assessments) ==
    LET involved == agents_involved(assessments)
        failing == {j \in 1..Len(involved) : ~can_participate_in_open_discussion(involved[j])}
    IN  IF failing = {}
        THEN [raises |-> FALSE, speakers |-> involved, point |-> CLARIFY_POINT]
        ELSE [raises |-> TRUE, speakers |-> SubSeq(involved, 1, Min(failing) - 1),
              point |-> CLARIFY_POINT]

\* _get_current_preferences: the choice of the explicit vote of every member
\* that has cast one
get_current_preferences(votes) ==
    SelectSeq([i \in Members |-> [member |-> MEMBER_AGENT_IDS[i], choice |-> votes[i]]],
              LAMBDA e : e.choice # None)

\* _conduct_problem_solving_discussion: every team member, in team order, on
\* a prompt that holds the current preferences
problem_solving_discussion(votes) ==
    [raises |-> FALSE, speakers |-> [i \in Members |-> MEMBER_AGENT_IDS[i]],
     point |-> [kind |-> "problem_solving", preferences |-> get_current_preferences(votes)]]

\* the discussion of round round_num
conduct_collaborative_discussion(round_num, assessments, votes) ==
    IF round_num = 0
    THEN [raises |-> FALSE, speakers |-> conduct_round_robin_discussion, point |-> NO_POINT]
    ELSE IF round_num = 1 THEN focused_discussion(assessments)
    ELSE problem_solving_discussion(votes)

\* a loop that runs one round too many
loop_continues_inclusive(round_num, maxr, cons) == round_num <= maxr /\ ~cons

\* while r < max_rounds and not consensus
loop_continues(round_num, maxr, cons) == round_num < maxr /\ ~cons

\* a faulty variant of feedback_due: feedback also after a round with consensus
feedback_due_regardless(round_num, maxr, cons) == round_num < maxr - 1

\* if not consensus and r < max_rounds - 1
feedback_due(round_num, maxr, cons) == ~cons /\ round_num < maxr - 1

(***************************************************************************)
(* Parser inputs: responses assembled from the formats the prompts ask for *)
(***************************************************************************)
NL == <<"\n">>
SP == <<" ">>

\* option sets of a question: 2 to 5 upper-case letter keys, in dict order
OptionSets == { <<"A","B">>, <<"A","B","C","D">>, <<"A","B","C","D","E">> }

SectionTexts == { <<"c","h","e","s","t"," ","p","a","i","n">>, <<"V","i","t","a","m","i","n"," ","B"," ","l","o","w">>, <<"a","n","e","m","i","a"," ","(","C","B","C",")">> }

ANSWER_MARKER(X) == <<"A","n","s","w","e","r",":"," ","(">> \o <<X>> \o <<")">>

\* an SBAR response with all four headers and the marker "Answer: (X)";
\* ownLine puts the marker on a line of its own after the recommendation
SbarText(X, sit, bg, ownLine) ==
    HDR_SITUATION \o SP \o sit \o NL
    \o HDR_BACKGROUND \o SP \o bg \o NL
    \o HDR_ASSESSMENT \o SP \o sit \o NL
    \o HDR_RECOMMENDATION \o SP
    \o (IF ownLine THEN bg \o NL ELSE <<>>)
    \o ANSWER_MARKER(X)

SbarTexts ==
    {SbarText(X, sit, bg, own) : X \in LettersAE, sit \in SectionTexts,
                                 bg \in SectionTexts, own \in BOOLEAN}

\* confidence numerals with the number each denotes, m / 10^e
ConfidenceNumerals ==
    { [text |-> <<"0",".","8","5">>, m |-> 85, e |-> 2],
      [text |-> <<"1">>,    m |-> 1,  e |-> 0] }

ConfidenceTexts == {c.text : c \in ConfidenceNumerals} \cup { <<"h","i","g","h">> }

RationaleTexts == { <<"c","l","e","a","r"," ","l","a","b"," ","f","i","n","d","i","n","g","s">>, <<"i","m","a","g","i","n","g",":"," ","c","o","n","s","i","s","t","e","n","t">> }

\* the format cast_delphi_vote asks for
VoteText(X, c, t) ==
    HDR_VOTE \o SP \o <<X>> \o NL
    \o HDR_CONFIDENCE \o SP \o c \o NL
    \o HDR_RATIONALE \o SP \o t

VoteTexts ==
    {VoteText(X, c, t) : X \in LettersAE, c \in ConfidenceTexts, t \in RationaleTexts}

\* the format make_final_decision_with_interaction asks for
DecisionText(X, t) ==
    HDR_DECISION \o SP \o <<X>> \o NL
    \o HDR_PRIMARY_RATIONALE \o SP \o t

DecisionTexts == {DecisionText(X, t) : X \in LettersAE, t \in RationaleTexts}

\* responses that follow none of the formats; <<>> is the text of a failed call
FreeTexts ==
    { <<>>, <<"A","n","s","w","e","r",":"," ","B">>, <<"I"," ","w","o","u","l","d"," ","c","h","o","o","s","e"," ","b">>, <<"O","p","t","i","o","n"," ","C"," ","i","s"," ","b","e","s","t">>,
      <<"(","A",")"," ","i","s"," ","u","n","l","i","k","e","l","y","\n","A","n","s","w","e","r",":"," ","(","B",")">>, <<"B",")"," ","i","s"," ","c","o","r","r","e","c","t">>, <<"a","n","s","w","e","r",":"," ","d">>,
      <<"A","n","s","w","e","r",":"," ","(","B",")",","," ","n","o","t"," ","(","C",")">>, <<"A","n","s","w","e","r",":"," ","A","\n","A","n","s","w","e","r",":"," ","B">> }

ParserInputs == SbarTexts \cup VoteTexts \cup DecisionTexts \cup FreeTexts

(***************************************************************************)
(* Initial values                                                          *)
(***************************************************************************)
NO_DECISION ==
    [made |-> FALSE, choice |-> None, consensus_achieved |-> FALSE,
     early_consensus |-> FALSE, final_agreement_rate |-> NO_RATE, error |-> FALSE]

IdleParser ==
    /\ response = <<>>
    /\ options = <<>>
    /\ parser = None
    /\ parsed = None

IdleRecruiter ==
    /\ question = <<>>
    /\ recruiter_calls = {}
    /\ relevance_scores = <<>>
    /\ team = <<>>
    /\ teams = <<>>

\* TeamLeadAgent.__init__ and SpecialistAgent.__init__, before any case
\* the locals initial_consensus and decision_prompt before they are assigned
NO_INITIAL_CHECK == [has_consensus |-> FALSE, choice |-> None, agreement_rate |-> NO_RATE]
NO_PROMPT == [sent |-> FALSE, total_rounds |-> 0, vote_distribution |-> <<>>]

FreshTeamLead ==
    /\ pc = "idle"
    /\ max_rounds = 0
    /\ r = 0
    /\ consensus = FALSE
    /\ consensus_result = NO_POLL
    /\ member_idx = 1
    /\ initial_consensus = NO_INITIAL_CHECK
    /\ decision_prompt = NO_PROMPT
    /\ earlier_case = FALSE
    /\ silent_assessments = <<>>
    /\ discussion_logs = <<>>
    /\ interaction_history = <<>>
    /\ final_decision = NO_DECISION
    /\ member_assessment = [i \in Members |-> UNSET]
    /\ member_vote = [i \in Members |-> None]
    /\ discussion_history = [i \in Members |-> <<>>]
    /\ events = <<>>

(***************************************************************************)
(* Specification of the parsers: one response, one option set, one parse   *)
(***************************************************************************)
InitParse ==
    /\ response \in ParserInputs
    /\ options \in OptionSets
    /\ parser = None
    /\ parsed = None
    /\ IdleRecruiter
    /\ FreshTeamLead

ParseLeadSbar ==
    /\ parser = None
    /\ parser' = "lead_sbar"
    /\ parsed' = TeamLead_parse_sbar(response, options)
    /\ UNCHANGED <<response, options, recruitVars, coordVars>>

ParseSpecialistSbar ==
    /\ parser = None
    /\ parser' = "specialist_sbar"
    /\ parsed' = Specialist_parse_sbar(response, options)
    /\ UNCHANGED <<response, options, recruitVars, coordVars>>

ParseVote ==
    /\ parser = None
    /\ parser' = "vote"
    /\ parsed' = Specialist_parse_vote(response)
    /\ UNCHANGED <<response, options, recruitVars, coordVars>>

ParseFinalDecision ==
    /\ parser = None
    /\ parser' = "final_decision"
    /\ parsed' = TeamLead_parse_final_decision(response, options)
    /\ UNCHANGED <<response, options, recruitVars, coordVars>>

NextParse ==
    \/ ParseLeadSbar
    \/ ParseSpecialistSbar
    \/ ParseVote
    \/ ParseFinalDecision

SpecParse == InitParse /\ [][NextParse]_vars

(***************************************************************************)
(* Specification of the coordinator: one moderate-complexity case          *)
(***************************************************************************)
\* the option keys of the case
CASE_OPTIONS == <<"A","B","C","D">>

\* what the model may reply to the SBAR prompt; <<>> is an empty reply
AssessmentResponses == { <<"A","n","s","w","e","r",":"," ","(","A",")">>, <<"A","n","s","w","e","r",":"," ","(","B",")">>, <<"A","n","s","w","e","r",":"," ","(","C",")">>, <<>> }

\* what the model may reply to the decision prompt; <<>> is an empty reply
DecisionResponses == { <<"D","E","C","I","S","I","O","N",":"," ","A">>, <<"D","E","C","I","S","I","O","N",":"," ","B">>, <<>> }

\* a model call: whether the API call succeeds, and the reply it carries
AssessmentCalls == [ok : BOOLEAN, content : AssessmentResponses]
DecisionCalls == [ok : BOOLEAN, content : DecisionResponses]

\* a chat that hands on the reply of a failed call
chat_passing_failure(call) == [text |-> call.content, error |-> ~call.ok]

\* BaseAgent.chat: the reply and its token info, or "" and {"error": ...}
\* when the API call raises
chat(call) ==
    IF call.ok THEN [text |-> call.content, error |-> FALSE]
    ELSE [text |-> <<>>, error |-> TRUE]

\* generate_sbar_assessment: the parsed reply with its token_info
sbar_assessment(reply, answer) == [recommended_answer |-> answer, error |-> reply.error]

\* the largest max_rounds a case is run with
MaxRounds == 5

\* coordinate_moderate_complexity_case(question, options, max_rounds): the
\* initialisation up to the start of the silent assessment phase
StartCase(maxr) ==
    /\ pc = "idle"
    /\ max_rounds' = maxr
    /\ r' = 0
    /\ consensus' = FALSE
    /\ interaction_history' = <<>>
    /\ initial_consensus' = NO_INITIAL_CHECK
    /\ decision_prompt' = NO_PROMPT
    /\ pc' = "silent_lead"
    /\ events' = <<>>
    /\ UNCHANGED <<consensus_result, member_idx, earlier_case, silent_assessments,
                   discussion_logs, final_decision, memberVars, parseVars, recruitVars>>

\* the same call on a lead that has returned from, or was left by an exception
\* in, an earlier case: the fields of the lead and of the members are as that
\* case left them
StartNextCase(maxr) ==
    /\ pc \in {"done", "raised"}
    /\ ~earlier_case
    /\ earlier_case' = TRUE
    /\ max_rounds' = maxr
    /\ r' = 0
    /\ consensus' = FALSE
    /\ interaction_history' = <<>>
    /\ initial_consensus' = NO_INITIAL_CHECK
    /\ decision_prompt' = NO_PROMPT
    /\ pc' = "silent_lead"
    /\ events' = <<>>
    /\ UNCHANGED <<consensus_result, member_idx, silent_assessments,
                   discussion_logs, final_decision, memberVars, parseVars, recruitVars>>

\* a faulty variant of more_members: the loop stops before the last member
more_members_but_last(idx) == idx < NumMembers - 1

\* for member in self.team_members: whether a member follows the one at idx
more_members(idx) == idx < NumMembers

\* coordinate_silent_assessment_phase: the lead's own assessment
AssessLead(call) ==
    /\ pc = "silent_lead"
    /\ LET reply == chat(call)
           answer == TeamLead_parse_sbar(reply.text, CASE_OPTIONS).recommended_answer
       IN  silent_assessments' =
               dict_set(silent_assessments, LEAD_AGENT_ID, sbar_assessment(reply, answer))
    /\ member_idx' = 1
    /\ pc' = IF NumMembers >= 1 THEN "silent_member" ELSE "initial_check"
    /\ events' = Append(events, "assessment")
    /\ UNCHANGED <<initial_consensus, decision_prompt, earlier_case,
                   max_rounds, r, consensus, consensus_result, discussion_logs,
                   interaction_history, final_decision, memberVars, parseVars, recruitVars>>

\* coordinate_silent_assessment_phase: one iteration of "for member in
\* self.team_members", SpecialistAgent.generate_sbar_assessment
AssessMember(call) ==
    /\ pc = "silent_member"
    /\ LET reply == chat(call)
           answer == Specialist_parse_sbar(reply.text, CASE_OPTIONS).recommended_answer
       IN  /\ member_assessment' = [member_assessment EXCEPT ![member_idx] = answer]
           /\ silent_assessments' =
                  dict_set(silent_assessments, MEMBER_AGENT_IDS[member_idx],
                           sbar_assessment(reply, answer))
    /\ member_idx' = member_idx + 1
    /\ pc' = IF more_members(member_idx) THEN "silent_member" ELSE "initial_check"
    /\ events' = Append(events, "assessment")
    /\ UNCHANGED <<initial_consensus, decision_prompt, earlier_case,
                   max_rounds, r, consensus, consensus_result, discussion_logs,
                   interaction_history, final_decision, member_vote, discussion_history,
                   parseVars, recruitVars>>

\* initial_consensus = self.check_initial_consensus(); if has_consensus: ...
CheckInitialConsensus ==
    /\ pc = "initial_check"
    /\ initial_consensus' = check_initial_consensus(silent_assessments)
    /\ pc' = IF initial_consensus'.has_consensus THEN "early_decision" ELSE "loop"
    /\ events' = Append(events, "initial_check")
    /\ UNCHANGED <<decision_prompt, earlier_case, max_rounds, r, consensus,
                   consensus_result, member_idx, leadVars, memberVars, parseVars,
                   recruitVars>>

\* make_final_decision: the decision on early consensus, then return
MakeFinalDecision ==
    /\ pc = "early_decision"
    /\ final_decision' =
           [made |-> TRUE,
            choice |-> initial_consensus.choice,
            consensus_achieved |-> TRUE,
            early_consensus |-> TRUE,
            final_agreement_rate |-> initial_consensus.agreement_rate,
            error |-> FALSE]
    /\ pc' = "done"
    /\ events' = Append(events, "final_decision")
    /\ UNCHANGED <<initial_consensus, decision_prompt, earlier_case, max_rounds, r,
                   consensus, consensus_result, member_idx, silent_assessments, discussion_logs, interaction_history,
                   memberVars, parseVars, recruitVars>>

\* the turns of the members among the speakers: participate_in_open_discussion
\* appends to the member's discussion_history
with_turns(history, speakers, point) ==
    [i \in Members |->
        history[i] \o
        [j \in 1..occurrences_of(speakers, MEMBER_AGENT_IDS[i]) |->
            [type |-> "discussion_turn", point |-> point]]]

\* loop body, lines 63-66: the round's discussion and the append to
\* discussion_logs; an AttributeError leaves the method
ConductDiscussion ==
    /\ pc = "loop"
    /\ loop_continues(r, max_rounds, consensus)
    /\ LET d == conduct_collaborative_discussion(r, silent_assessments, member_vote)
       IN  /\ discussion_history' = with_turns(discussion_history, d.speakers, d.point)
           /\ IF d.raises
              THEN /\ pc' = "raised"
                   /\ events' = Append(events, "AttributeError")
                   /\ UNCHANGED discussion_logs
              ELSE /\ pc' = "poll"
                   /\ events' = Append(events, "discussion")
                   /\ discussion_logs' = Append(discussion_logs, d.speakers)
    /\ UNCHANGED <<initial_consensus, decision_prompt, earlier_case,
                   max_rounds, r, consensus, consensus_result, member_idx,
                   silent_assessments, interaction_history, final_decision,
                   member_assessment, member_vote, parseVars, recruitVars>>

\* loop body, lines 68-70: the consensus poll of the round
CheckConsensus ==
    /\ pc = "poll"
    /\ consensus_result' = check_consensus(silent_assessments, member_assessment)
    /\ consensus' = consensus_result'.has_consensus
    /\ pc' = "post_poll"
    /\ events' = Append(events, "poll")
    /\ UNCHANGED <<initial_consensus, decision_prompt, earlier_case,
                   max_rounds, r, member_idx, leadVars, memberVars, parseVars, recruitVars>>

\* a faulty variant of ModeratorFeedback: the members take over the lead's answer
ModeratorFeedbackSwaying ==
    /\ pc = "post_poll"
    /\ feedback_due(r, max_rounds, consensus)
    /\ discussion_history' =
           [i \in Members |->
               Append(discussion_history[i], [type |-> "moderator_feedback", point |-> NO_POINT])]
    /\ interaction_history' =
           interaction_history \o discussion_logs[Len(discussion_logs)]
           \o <<"moderator_feedback">>
    /\ member_assessment' = [i \in Members |-> get_lead_preference(silent_assessments)]
    /\ r' = r + 1
    /\ pc' = "loop"
    /\ events' = Append(events, "feedback")
    /\ UNCHANGED <<initial_consensus, decision_prompt, earlier_case,
                   max_rounds, consensus, consensus_result, member_idx,
                   silent_assessments, discussion_logs, final_decision,
                   member_vote, parseVars, recruitVars>>

\* loop body, lines 72-89 and 94: moderator feedback, delivered to every
\* member, recorded in interaction_history; r += 1
ModeratorFeedback ==
    /\ pc = "post_poll"
    /\ feedback_due(r, max_rounds, consensus)
    /\ discussion_history' =
           [i \in Members |->
               Append(discussion_history[i], [type |-> "moderator_feedback", point |-> NO_POINT])]
    /\ interaction_history' =
           interaction_history \o discussion_logs[Len(discussion_logs)]
           \o <<"moderator_feedback">>
    /\ r' = r + 1
    /\ pc' = "loop"
    /\ events' = Append(events, "feedback")
    /\ UNCHANGED <<initial_consensus, decision_prompt, earlier_case,
                   max_rounds, consensus, consensus_result, member_idx,
                   silent_assessments, discussion_logs, final_decision,
                   member_assessment, member_vote, parseVars, recruitVars>>

\* loop body, lines 90-94 when no feedback is due: r += 1
AdvanceRound ==
    /\ pc = "post_poll"
    /\ ~feedback_due(r, max_rounds, consensus)
    /\ r' = r + 1
    /\ pc' = "loop"
    /\ UNCHANGED <<initial_consensus, decision_prompt, earlier_case,
                   max_rounds, consensus, consensus_result, member_idx, leadVars,
                   memberVars, events, parseVars, recruitVars>>

\* a faulty variant of final_consensus_state: the tally of the initial check
final_consensus_from_initial(assessments, member_assessments) ==
    [has_consensus |-> check_initial_consensus(assessments).has_consensus,
     agreement_rate |-> check_initial_consensus(assessments).agreement_rate,
     votes |-> current_votes(assessments, member_assessments)]

\* final_consensus = self.check_consensus()
final_consensus_state(assessments, member_assessments) ==
    check_consensus(assessments, member_assessments)

\* make_final_decision_with_interaction up to self.final_decision = decision
MakeFinalDecisionWithInteraction(call) ==
    /\ pc = "loop"
    /\ ~loop_continues(r, max_rounds, consensus)
    /\ LET final_consensus == final_consensus_state(silent_assessments, member_assessment)
           reply == chat(call)
           decision == TeamLead_parse_final_decision(reply.text, CASE_OPTIONS)
       IN  /\ decision_prompt' =
                  [sent |-> TRUE,
                   total_rounds |-> Len(discussion_logs),
                   vote_distribution |-> vote_distribution(final_consensus.votes)]
           /\ final_decision' =
                  [made |-> TRUE,
                   choice |-> decision.choice,
                   consensus_achieved |-> final_consensus.has_consensus,
                   early_consensus |-> FALSE,
                   final_agreement_rate |-> final_consensus.agreement_rate,
                   error |-> reply.error]
    /\ pc' = "notify"
    /\ events' = Append(events, "final_decision")
    /\ UNCHANGED <<initial_consensus, earlier_case, max_rounds, r, consensus,
                   consensus_result, member_idx, silent_assessments, discussion_logs, interaction_history,
                   memberVars, parseVars, recruitVars>>

\* _notify_team_of_decision: acknowledge_final_decision on every member, then
\* the method returns the decision
NotifyTeamOfDecision ==
    /\ pc = "notify"
    /\ pc' = "done"
    /\ events' = events \o [i \in Members |-> "acknowledge"]
    /\ UNCHANGED <<initial_consensus, decision_prompt, earlier_case,
                   max_rounds, r, consensus, consensus_result, member_idx, leadVars,
                   memberVars, parseVars, recruitVars>>

Init ==
    /\ IdleParser
    /\ IdleRecruiter
    /\ FreshTeamLead

Next ==
    \/ \E maxr \in 0..MaxRounds : StartCase(maxr)
    \/ \E call \in AssessmentCalls : AssessLead(call)
    \/ \E call \in AssessmentCalls : AssessMember(call)
    \/ CheckInitialConsensus
    \/ MakeFinalDecision
    \/ ConductDiscussion
    \/ CheckConsensus
    \/ ModeratorFeedback
    \/ AdvanceRound
    \/ \E call \in DecisionCalls : MakeFinalDecisionWithInteraction(call)
    \/ NotifyTeamOfDecision

Spec == Init /\ [][Next]_vars

(***************************************************************************)
(* Specification of two cases coordinated by one lead with one team        *)
(***************************************************************************)
\* the model calls of the two cases: successful, with a reply for A or for B
RepeatedAssessmentCalls ==
    {call \in AssessmentCalls :
        call.ok /\ call.content \in { <<"A","n","s","w","e","r",":"," ","(","A",")">>, <<"A","n","s","w","e","r",":"," ","(","B",")">> }}
RepeatedDecisionCalls == {call \in DecisionCalls : call.ok}

NextTwoCases ==
    \/ \E maxr \in 0..MaxRounds : StartCase(maxr)
    \/ \E maxr \in 0..MaxRounds : StartNextCase(maxr)
    \/ \E call \in RepeatedAssessmentCalls : AssessLead(call)
    \/ \E call \in RepeatedAssessmentCalls : AssessMember(call)
    \/ CheckInitialConsensus
    \/ MakeFinalDecision
    \/ ConductDiscussion
    \/ CheckConsensus
    \/ ModeratorFeedback
    \/ AdvanceRound
    \/ \E call \in RepeatedDecisionCalls : MakeFinalDecisionWithInteraction(call)
    \/ NotifyTeamOfDecision

SpecTwoCases == Init /\ [][NextTwoCases]_vars

(***************************************************************************)
(* Claims about the coordinator                                            *)
(***************************************************************************)
SilentPhaseOver == pc \notin {"idle", "silent_lead", "silent_member"}

\* the recommendations of the silent assessments that are not absent
NonAbsentAnswers ==
    SelectSeq([j \in 1..Len(silent_assessments) |-> silent_assessments[j].recommended_answer],
              LAMBDA a : a # None)

\* option X is the answer of at least 80% of the non-absent recommendations
AgreedOn(X) ==
    /\ Len(NonAbsentAnswers) > 0
    /\ 5 * Cardinality({j \in 1..Len(NonAbsentAnswers) : NonAbsentAnswers[j] = X})
           >= 4 * Len(NonAbsentAnswers)

EventCount(kinds) == Cardinality({j \in 1..Len(events) : events[j] \in kinds})

C2_AtMostMaxRounds ==
    /\ EventCount({"discussion", "AttributeError"}) <= max_rounds
    /\ Len(discussion_logs) <= max_rounds
    /\ EventCount({"poll"}) <= max_rounds
    /\ r <= max_rounds

\* a case that ran all of its rounds, three or more, without consensus
C2_Witness_AllRoundsRun ==
    /\ pc = "done"
    /\ max_rounds >= 3
    /\ Len(discussion_logs) = max_rounds
    /\ EventCount({"poll"}) = max_rounds
    /\ ~consensus

\* the method has been left, by return or by an exception
Terminated == pc \in {"done", "raised"}

\* C3: for every flat-panel team, every combination of silent-assessment
\* answers and every max_rounds, the case produces a FinalDecision exactly once
\* whichever way the round loop is left: when the method has been left, one
\* final decision has been made.
C3_OneFinalDecision ==
    Terminated =>
        /\ final_decision.made
        /\ EventCount({"final_decision"}) = 1

\* C5: the round-0 discussion produces one turn per advisor and the lead's
\* turn is the last one in the round's discussion log (every diagnostic
\* advisor before every organ-system specialist: an order among those turns).
C5_RoundRobinLeadLast ==
    Len(discussion_logs) >= 1 =>
        LET log == discussion_logs[1]
        IN  /\ Len(log) = NumMembers + 1
            /\ \A i \in Members : occurrences_of(log, MEMBER_AGENT_IDS[i]) = 1
            /\ occurrences_of(log, LEAD_AGENT_ID) = 1
            /\ log[Len(log)] = LEAD_AGENT_ID

FailedAssessments == {j \in 1..Len(silent_assessments) : silent_assessments[j].error}

\* C11: a failed model call is a degraded value for that single call and never
\* an exception: the failed advisor's assessment has an absent
\* recommended_answer and is left out of the initial-consensus tally, every
\* advisor is still assessed, and a failed final-decision call still yields a
\* FinalDecision with choice absent and consensus_achieved and agreement rate
\* as in the last poll.
C11_FailedCallDegrades ==
    /\ \A j \in FailedAssessments : silent_assessments[j].recommended_answer = None
    /\ initial_recommendations(silent_assessments) = NonAbsentAnswers
    /\ SilentPhaseOver => Len(silent_assessments) = NumMembers + 1
    /\ final_decision.error =>
           /\ pc \in {"notify", "done"}
           /\ final_decision.made
           /\ final_decision.choice = None
           /\ EventCount({"poll"}) > 0 =>
                  /\ final_decision.consensus_achieved = consensus_result.has_consensus
                  /\ final_decision.final_agreement_rate = consensus_result.agreement_rate

\* a case returned after one member's assessment call and the final-decision
\* call failed, all other advisors having given an answer
C11_Witness_FailedCalls ==
    /\ pc = "done"
    /\ final_decision.error
    /\ EventCount({"poll"}) > 0
    /\ Cardinality(FailedAssessments) = 1
    /\ \A j \in 1..Len(silent_assessments) :
           /\ j \in FailedAssessments => silent_assessments[j].agent_id # LEAD_AGENT_ID
           /\ j \notin FailedAssessments => silent_assessments[j].recommended_answer # None

(***************************************************************************)
(* Claims about the parsers                                                *)
(***************************************************************************)
\* two confidence values denote the same number
SameNumber(a, b) == a.m * (10 ^ b.e) = b.m * (10 ^ a.e)

\* C4: the vote parser applied to the three lines "VOTE: X", "CONFIDENCE: c",
\* "RATIONALE: t" returns choice X, confidence c and rationale t.
C4_VoteParsedAsWritten ==
    \A X \in LettersAE, c \in ConfidenceNumerals, t \in RationaleTexts :
        (parser = "vote" /\ response = VoteText(X, c.text, t))
            => /\ parsed.choice = X
               /\ SameNumber(parsed.confidence, c)
               /\ parsed.rationale = t

\* the part of C4 the code does satisfy: confidence and rationale are returned
\* as written (shown for reference)
VoteConfidenceAndRationale ==
    \A X \in LettersAE, c \in ConfidenceNumerals, t \in RationaleTexts :
        (parser = "vote" /\ response = VoteText(X, c.text, t))
            => /\ SameNumber(parsed.confidence, c)
               /\ parsed.rationale = t

VOTE_FIELDS == {"choice", "confidence", "rationale"}

\* C10: both structured-assessment parsers, applied to a text with the four
\* headers and the single marker "Answer: (X)", X a valid option, return
\* recommended_answer = X, the four sections as written after their headers,
\* and a record without vote fields.
C10_SbarWellFormed ==
    \A X \in LettersAE, sit \in SectionTexts, bg \in SectionTexts, own \in BOOLEAN :
        (/\ parser \in {"lead_sbar", "specialist_sbar"}
         /\ response = SbarText(X, sit, bg, own)
         /\ X \in Range(options))
            => /\ parsed.recommended_answer = X
               /\ parsed.situation = sit
               /\ parsed.background = bg
               /\ parsed.assessment = sit
               /\ parsed.recommendation =
                      (IF own THEN bg \o SP \o ANSWER_MARKER(X) ELSE ANSWER_MARKER(X))
               /\ DOMAIN parsed \cap VOTE_FIELDS = {}

\* the same statement for the lead's parser alone (shown for reference)
LeadSbarWellFormed ==
    \A X \in LettersAE, sit \in SectionTexts, bg \in SectionTexts, own \in BOOLEAN :
        (/\ parser = "lead_sbar"
         /\ response = SbarText(X, sit, bg, own)
         /\ X \in Range(options))
            => /\ parsed.recommended_answer = X
               /\ parsed.situation = sit
               /\ parsed.background = bg
               /\ DOMAIN parsed \cap VOTE_FIELDS = {}

(***************************************************************************)
(* Specification of the recruiter: one question, the two calls on it       *)
(***************************************************************************)
\* words a question is made of (upper case is lower-cased by the scorer)
QuestionWords == <<
    <<"h","e","a","r","t">>, <<"A","C","U","T","E">>, <<"c","a","n","c","e","r">>, <<"e","m","e","r","g","e","n","c","y"," ","m","e","d","i","c","i","n","e">>, <<"i","n","f","e","c","t","i","o","n">>,
    <<"C","T"," ","s","c","a","n">>, <<"p","a","t","i","e","n","t">>, <<"c","a","r","d","i","o","l","o","g","i","s","t">>, <<"l","u","n","g">> >>

\* at most this many words in a question
MaxQuestionWords == 3

RECURSIVE join_words(_, _)
join_words(ws, k) ==
    IF k > Len(QuestionWords) THEN <<>>
    ELSE LET rest == join_words(ws, k + 1)
         IN  IF k \in ws
             THEN QuestionWords[k] \o (IF rest = <<>> THEN <<>> ELSE SP \o rest)
             ELSE rest

Questions ==
    {join_words(ws, 1) : ws \in {w \in SUBSET (1..Len(QuestionWords)) :
                                     Cardinality(w) <= MaxQuestionWords}}

InitRecruit ==
    /\ question \in Questions
    /\ recruiter_calls = {}
    /\ relevance_scores = <<>>
    /\ team = <<>>
    /\ teams = <<>>
    /\ IdleParser
    /\ FreshTeamLead

CalculateRelevanceScores ==
    /\ "calculate_relevance_scores" \notin recruiter_calls
    /\ recruiter_calls' = recruiter_calls \cup {"calculate_relevance_scores"}
    /\ relevance_scores' = calculate_relevance_scores(question)
    /\ UNCHANGED <<question, team, teams, parseVars, coordVars>>

RecruitForModerateComplexity ==
    /\ "recruit_for_moderate_complexity" \notin recruiter_calls
    /\ recruiter_calls' = recruiter_calls \cup {"recruit_for_moderate_complexity"}
    /\ team' = recruit_for_moderate_complexity(question)
    /\ UNCHANGED <<question, relevance_scores, teams, parseVars, coordVars>>

RecruitForHighComplexity ==
    /\ "recruit_for_high_complexity" \notin recruiter_calls
    /\ recruiter_calls' = recruiter_calls \cup {"recruit_for_high_complexity"}
    /\ teams' = recruit_for_high_complexity(question)
    /\ UNCHANGED <<question, relevance_scores, team, parseVars, coordVars>>

NextRecruit ==
    \/ CalculateRelevanceScores
    \/ RecruitForModerateComplexity
    \/ RecruitForHighComplexity

SpecRecruit == InitRecruit /\ [][NextRecruit]_vars

(***************************************************************************)
(* Claims about the recruiter                                              *)
(***************************************************************************)
RecruitedModerate == "recruit_for_moderate_complexity" \in recruiter_calls
ScoresCalculated == "calculate_relevance_scores" \in recruiter_calls

ExpectedSpecialistIds ==
    << <<"s","p","e","c","i","a","l","i","s","t","_","1">>, <<"s","p","e","c","i","a","l","i","s","t","_","2">>, <<"s","p","e","c","i","a","l","i","s","t","_","3">>, <<"s","p","e","c","i","a","l","i","s","t","_","4">> >>

\* C6: flat-panel recruitment returns exactly 5 advisors whatever the number of
\* scored specialties: the lead first (lead_physician, relevance 0.9, weight
\* 0.3), then exactly 4 consultants with the ids specialist_1 .. specialist_4.
C6_FlatPanelHasFive ==
    RecruitedModerate =>
        /\ Len(team) = 5
        /\ team[1].agent_id = <<"l","e","a","d","_","p","h","y","s","i","c","i","a","n">>
        /\ team[1].relevance_score = Rat(9, 10)
        /\ team[1].decision_weight = Rat(3, 10)
        /\ \A i \in 1..4 :
              /\ team[i + 1].agent_id = ExpectedSpecialistIds[i]
              /\ team[i + 1].role = ROLE_CONSULTING

\* C6 witness: a panel recruited for a question no specialty scores on, so that
\* all four consultants come from the fill-up
C6_Witness_NoneScored ==
    /\ RecruitedModerate
    /\ ScoresCalculated
    /\ relevance_scores = <<>>
    /\ Len(team) = 5

\* the consultants of the recruited panel
Consultants == SubSeq(team, 2, Len(team))

ConsultantRelevance == RSum([i \in 1..Len(Consultants) |-> Consultants[i].relevance_score])

\* C7: when the consultants' total relevance is > 0, each consultant's weight
\* is (relevance / total) x 0.7, the consultant weights sum to 0.7 and the
\* panel's weights to 1.0, filled-up slots included.
C7_ConsultantWeightsSum ==
    (RecruitedModerate /\ ConsultantRelevance.n > 0) =>
        /\ \A i \in 1..Len(Consultants) :
              Consultants[i].decision_weight =
                  RMul(RDiv(Consultants[i].relevance_score, ConsultantRelevance), Rat(7, 10))
        /\ RSum([i \in 1..Len(Consultants) |-> Consultants[i].decision_weight]) = Rat(7, 10)
        /\ RSum([i \in 1..Len(team) |-> team[i].decision_weight]) = Rat(1, 1)

\* C7 witness: a panel with a scored consultant and a filled-up one
C7_Witness_PartlyFilled ==
    /\ RecruitedModerate
    /\ ScoresCalculated
    /\ Len(relevance_scores) \in 1..3
    /\ Len(team) = 5
    /\ Consultants[1].relevance_score = Rat(1, 1)
    /\ Consultants[4].relevance_score = Rat(1, 10)

TopScored == {i \in 1..Len(relevance_scores) : relevance_scores[i].score = Rat(1, 1)}

\* C8 as claimed: a non-empty score mapping has exactly one specialty at 1.0.
C8_ExactlyOneMaximum ==
    (ScoresCalculated /\ relevance_scores # <<>>) => Cardinality(TopScored) = 1

\* C8 as amended: a non-empty score mapping has at least one specialty at 1.0
\* (several specialties that tie for the maximum all get 1.0).
C8_SomeMaximum ==
    (ScoresCalculated /\ relevance_scores # <<>>) => Cardinality(TopScored) >= 1

\* C8 witness: two specialties tie for the maximum
C8_Witness_TiedMaximum ==
    /\ ScoresCalculated
    /\ Cardinality(TopScored) >= 2

\* the raw score of every catalog entry for the question
RawScore(i) == keyword_score(SPECIALTIES[i], lower(question))

MaxRawScore == Max({RawScore(i) : i \in 1..Len(SPECIALTIES)})

EntriesOf(specialty) ==
    {j \in 1..Len(relevance_scores) : relevance_scores[j].specialty = specialty}

\* C9: every returned value lies in (0, 1]; a specialty with raw score 0 has no
\* entry; every kept raw score is divided by the maximum kept raw score; the
\* mapping is empty when no specialty scores.
C9_ScoresNormalized ==
    ScoresCalculated =>
        /\ \A j \in 1..Len(relevance_scores) :
              /\ relevance_scores[j].score.n > 0
              /\ relevance_scores[j].score.n <= relevance_scores[j].score.d
        /\ \A i \in 1..Len(SPECIALTIES) :
              LET e == EntriesOf(SPECIALTIES[i].specialty)
              IN  IF RawScore(i) = 0 THEN e = {}
                  ELSE /\ Cardinality(e) = 1
                       /\ \A j \in e : relevance_scores[j].score = Rat(RawScore(i), MaxRawScore)
        /\ (MaxRawScore = 0 => relevance_scores = <<>>)

\* C9 witness: a mapping with a value below 1 and a specialty left out
C9_Witness_Normalized ==
    /\ ScoresCalculated
    /\ \E j \in 1..Len(relevance_scores) : RLess(relevance_scores[j].score, Rat(1, 1))
    /\ Len(relevance_scores) < Len(SPECIALTIES)

RecruitedHigh == "recruit_for_high_complexity" \in recruiter_calls

\* the scored specialties of the question, best first
ScoredPool == sorted_by_score_desc(calculate_relevance_scores(question))

TeamMembers(t) == teams[t].members

AllTeamAgentIds == {TeamMembers(t)[i].agent_id : t \in 1..3, i \in 1..3}

CatalogSpecialties ==
    {SPECIALTIES[i].specialty : i \in 1..Len(SPECIALTIES)}
    \cup { <<"P","r","i","m","a","r","y"," ","C","a","r","e"," ","P","h","y","s","i","c","i","a","n">>, <<"C","l","i","n","i","c","a","l"," ","P","h","a","r","m","a","c","i","s","t">> }

\* C12: for every question, including one for which no specialty scores,
\* recruit_for_high_complexity returns exactly three sub-teams (initial
\* assessment, diagnostic evidence, final review), each with exactly three
\* advisors of which the first is the sub-team lead; all nine agent ids are
\* distinct, and a missing pool position is filled with its fixed default
\* specialty.
C12_ThreeTeamsOfThree ==
    RecruitedHigh =>
        /\ Len(teams) = 3
        /\ teams[1].name = TEAM_IAT /\ teams[2].name = TEAM_DET /\ teams[3].name = TEAM_FRDT
        /\ \A t \in 1..3 : Len(TeamMembers(t)) = 3
        /\ TeamMembers(1)[1].agent_id = <<"i","a","t","_","l","e","a","d">>
        /\ TeamMembers(2)[1].agent_id = <<"d","e","t","_","l","e","a","d">>
        /\ TeamMembers(3)[1].agent_id = <<"f","r","d","t","_","l","e","a","d">>
        /\ Cardinality(AllTeamAgentIds) = 9
        /\ \A t \in 1..3, i \in 1..3 : TeamMembers(t)[i].specialty \in CatalogSpecialties
        /\ Len(ScoredPool) = 0 =>
               /\ TeamMembers(1)[2].specialty = <<"I","n","t","e","r","n","a","l"," ","M","e","d","i","c","i","n","e">>
               /\ TeamMembers(3)[2].specialty = <<"O","n","c","o","l","o","g","i","s","t">>
        /\ Len(ScoredPool) <= 1 => TeamMembers(1)[3].specialty = <<"P","r","i","m","a","r","y"," ","C","a","r","e"," ","P","h","y","s","i","c","i","a","n">>
        /\ Len(ScoredPool) <= 2 => TeamMembers(2)[1].specialty = <<"P","a","t","h","o","l","o","g","i","s","t">>
        /\ Len(ScoredPool) <= 3 => TeamMembers(2)[2].specialty = <<"R","a","d","i","o","l","o","g","i","s","t">>
        /\ Len(ScoredPool) <= 4 => TeamMembers(2)[3].specialty = <<"H","e","m","a","t","o","l","o","g","i","s","t">>

\* teams recruited for a question no specialty scores on
C12_Witness_EmptyPool ==
    /\ RecruitedHigh
    /\ Len(ScoredPool) = 0
    /\ TeamMembers(1)[2].specialty = <<"I","n","t","e","r","n","a","l"," ","M","e","d","i","c","i","n","e">>

Polled == EventCount({"poll"}) > 0

\* the preference the poll is to count for an advisor: its explicit vote if it
\* has cast one, else the answer of its silent assessment, else 'A'
ExpectedPreference(vote, answer) ==
    IF vote # None THEN vote
    ELSE IF answer # None /\ answer # UNSET THEN answer
    ELSE "A"

LeadAnswer ==
    LET mine == {j \in 1..Len(silent_assessments) :
                    silent_assessments[j].agent_id = LEAD_AGENT_ID}
    IN  IF mine = {} THEN None ELSE silent_assessments[Min(mine)].recommended_answer

ExpectedVotes ==
    <<ExpectedPreference(None, LeadAnswer)>> \o
    [i \in Members |-> ExpectedPreference(member_vote[i], member_assessment[i])]

MostFrequentCount(votes) ==
    Max({Cardinality({j \in 1..Len(votes) : votes[j] = votes[k]}) : k \in 1..Len(votes)})

\* C13: in every consensus poll the preference counted for each advisor is its
\* most recent explicit vote if it has cast one, otherwise the
\* recommended_answer of its silent assessment, otherwise (answer absent) the
\* default letter 'A'; agreement_rate is the count of the most frequent
\* preference divided by the number of advisors polled.
C13_PollCountsPreferences ==
    Polled =>
        /\ consensus_result.votes = ExpectedVotes
        /\ consensus_result.agreement_rate =
               Rat(MostFrequentCount(ExpectedVotes), NumMembers + 1)

\* the rate of a poll is the share of its most frequent counted preference
PollRateOfCountedVotes ==
    Polled =>
        consensus_result.agreement_rate =
            Rat(MostFrequentCount(consensus_result.votes), Len(consensus_result.votes))

\* the poll just taken reached an agreement rate of at least 0.8
PollReachedThreshold ==
    /\ Polled
    /\ 5 * consensus_result.agreement_rate.n >= 4 * consensus_result.agreement_rate.d

LastPoll == Max({j \in 1..Len(events) : events[j] = "poll"})

EventsAfter(j) == {events[k] : k \in (j + 1)..Len(events)}

FeedbacksReceived(i) ==
    Cardinality({k \in 1..Len(discussion_history[i]) :
                    discussion_history[i][k].type = "moderator_feedback"})

PollEvents == {j \in 1..Len(events) : events[j] = "poll"}

\* the index of the round that the poll at position j of events closes
RoundOfPoll(j) == Cardinality({k \in PollEvents : k < j})

\* the poll at position j ended without consensus: the loop went on after it,
\* or it is the last poll and consensus is false
PollWithoutConsensus(j) == j < LastPoll \/ ~consensus

EventAfter(j) == IF j < Len(events) THEN events[j + 1] ELSE "none"

\* feedback follows a poll exactly when the round ended without consensus and
\* was not the last allowed round, and it reaches every member at once
FeedbackAfterOpenRounds ==
    /\ \A i \in Members : FeedbacksReceived(i) = EventCount({"feedback"})
    /\ \A j \in 1..Len(events) : events[j] = "feedback" => (j > 1 /\ events[j - 1] = "poll")
    /\ \A j \in PollEvents :
           pc # "post_poll" =>
               (EventAfter(j) = "feedback"
                   <=> (PollWithoutConsensus(j) /\ RoundOfPoll(j) < max_rounds - 1))

\* the case has left the method after entering the round loop and no poll
\* reached consensus
LeftWithoutConsensus ==
    /\ Terminated
    /\ ~final_decision.early_consensus
    /\ max_rounds >= 1
    /\ ~consensus

\* C15: moderator feedback is generated exactly once after every round that
\* ends without consensus and is not the last allowed round, never after the
\* last round or a round that reached consensus; each feedback is appended to
\* the discussion history of every team member before the next round starts,
\* so a case that never reaches consensus produces exactly max_rounds - 1
\* feedbacks.
C15_FeedbackEveryOpenRound ==
    /\ FeedbackAfterOpenRounds
    /\ LeftWithoutConsensus => EventCount({"feedback"}) = max_rounds - 1

\* the same count for the cases that return a decision
FeedbackCountOnReturn ==
    (LeftWithoutConsensus /\ pc = "done") => EventCount({"feedback"}) = max_rounds - 1

FinalDecisionEvent == Min({j \in 1..Len(events) : events[j] = "final_decision"})

\* C16: on every path that reaches the final decision, early consensus as well
\* as after the round loop, the lead notifies every team member of the
\* decision after the FinalDecision has been recorded and before the
\* coordinator returns.
C16_TeamNotified ==
    pc = "done" =>
        /\ final_decision.made
        /\ EventCount({"acknowledge"}) = NumMembers
        /\ \A j \in 1..Len(events) : events[j] = "acknowledge" => j > FinalDecisionEvent

\* the same for the decision made after the round loop
NotifiedAfterLoopDecision ==
    (pc = "done" /\ ~final_decision.early_consensus) =>
        /\ EventCount({"acknowledge"}) = NumMembers
        /\ \A j \in 1..Len(events) : events[j] = "acknowledge" => j > FinalDecisionEvent

\* the advisor ids in the order the silent phase assesses them
AdvisorIdsInOrder == <<LEAD_AGENT_ID>> \o [i \in Members |-> MEMBER_AGENT_IDS[i]]

AssessmentIds == [j \in 1..Len(silent_assessments) |-> silent_assessments[j].agent_id]

\* C17: before the initial consensus check runs, every advisor (the lead
\* first, then each team member in team order) has produced exactly one
\* structured assessment, so the assessment map has 1 + (number of team
\* members) entries keyed by distinct advisor ids, and no discussion turn,
\* poll or feedback takes place before all assessments are recorded.
C17_SilentPhaseComplete ==
    /\ AssessmentIds = SubSeq(AdvisorIdsInOrder, 1, Len(silent_assessments))
    /\ EventCount({"assessment"}) = Len(silent_assessments)
    /\ \A i \in Members :
           (member_assessment[i] # UNSET) <=> (i + 1 <= Len(silent_assessments))
    /\ SilentPhaseOver =>
           /\ Len(silent_assessments) = NumMembers + 1
           /\ Cardinality(Range(AssessmentIds)) = NumMembers + 1
    /\ \A j \in 1..Len(events) :
           events[j] # "assessment" =>
               /\ j > NumMembers + 1
               /\ \A k \in 1..(NumMembers + 1) : events[k] = "assessment"
    /\ ~SilentPhaseOver =>
           /\ discussion_logs = <<>>
           /\ \A i \in Members : discussion_history[i] = <<>>

\* the initial consensus check is about to run on the five assessments
C17_Witness_BeforeInitialCheck ==
    /\ pc = "initial_check"
    /\ Len(silent_assessments) = NumMembers + 1
    /\ events = [k \in 1..(NumMembers + 1) |-> "assessment"]

\* a decision made by make_final_decision_with_interaction
DecidedAfterLoop == final_decision.made /\ ~final_decision.early_consensus

\* C18: for max_rounds >= 1 the FinalDecision produced after the round loop
\* has consensus_achieved equal to the has_consensus result of the last
\* consensus poll taken in the loop and final_agreement_rate equal to that
\* poll's agreement_rate.
C18_DecisionCarriesLastPoll ==
    (DecidedAfterLoop /\ max_rounds >= 1) =>
        /\ Polled
        /\ final_decision.consensus_achieved = consensus_result.has_consensus
        /\ final_decision.final_agreement_rate = consensus_result.agreement_rate

\* a decision after three rounds without consensus, one assessment absent
C18_Witness_AfterThreeRounds ==
    /\ DecidedAfterLoop
    /\ pc = "done"
    /\ max_rounds = 3
    /\ EventCount({"poll"}) = 3
    /\ Len(NonAbsentAnswers) = NumMembers
    /\ ~final_decision.consensus_achieved
    /\ final_decision.final_agreement_rate = Rat(2, 5)

\* the discussion of round index 1 has been run (to its end or to an exception)
FocusedRoundRun == EventCount({"discussion", "AttributeError"}) >= 2

\* the advisors of the two largest groups of differing answers
InvolvedAdvisors == agents_involved(silent_assessments)

\* C19: in round 1 (focused discussion) the advisors asked to speak are
\* exactly the advisors, lead included, whose recommended_answer belongs to one
\* of the two largest groups of differing answers; each contributes exactly
\* one turn to the round's discussion log and the round completes without
\* error whichever group the lead belongs to.
C19_FocusedRoundCompletes ==
    FocusedRoundRun =>
        /\ pc # "raised"
        /\ Len(discussion_logs) >= 2
        /\ Range(discussion_logs[2]) = Range(InvolvedAdvisors)
        /\ Len(discussion_logs[2]) = Cardinality(Range(InvolvedAdvisors))

\* the focused round completes, with one turn per involved advisor, exactly
\* when the lead is not among the involved advisors
FocusedRoundWithoutLead ==
    FocusedRoundRun =>
        IF LEAD_AGENT_ID \in Range(InvolvedAdvisors)
        THEN pc = "raised" /\ Len(discussion_logs) = 1
        ELSE /\ pc # "raised"
             /\ discussion_logs[2] = InvolvedAdvisors
             /\ Len(discussion_logs[2]) = Cardinality(Range(InvolvedAdvisors))

\* the turns of member i in problem-solving rounds
ProblemSolvingTurns(i) ==
    SelectSeq(discussion_history[i],
              LAMBDA e : e.type = "discussion_turn" /\ e.point.kind = "problem_solving")

\* the tally gives member i the preference the poll counted for it
TallyAgreesWithPoll(tally, i) ==
    \E k \in 1..Len(tally) :
        /\ tally[k].member = MEMBER_AGENT_IDS[i]
        /\ tally[k].choice = consensus_result.votes[i + 1]

\* every problem-solving round logged so far has one turn per team member, in
\* team order
OneTurnPerMember ==
    \A k \in 3..Len(discussion_logs) :
        discussion_logs[k] = [i \in Members |-> MEMBER_AGENT_IDS[i]]

\* C20: in every round with index >= 2 (problem-solving discussion) each team
\* member contributes exactly one turn, and the preference tally placed in the
\* prompt is the current preference of the advisors: it agrees with the
\* preferences counted by the consensus poll of the preceding round.
C20_ProblemSolvingTally ==
    /\ OneTurnPerMember
    /\ \A i \in Members :
           /\ Len(ProblemSolvingTurns(i)) = Max({Len(discussion_logs) - 2, 0})
           /\ \A k \in 1..Len(ProblemSolvingTurns(i)) :
                  TallyAgreesWithPoll(ProblemSolvingTurns(i)[k].point.preferences, i)

\* what the code does: one turn per member, on a prompt with an empty tally
ProblemSolvingEmptyTally ==
    /\ OneTurnPerMember
    /\ \A i \in Members :
           /\ Len(ProblemSolvingTurns(i)) = Max({Len(discussion_logs) - 2, 0})
           /\ \A k \in 1..Len(ProblemSolvingTurns(i)) :
                  ProblemSolvingTurns(i)[k].point.preferences = <<>>

(***************************************************************************)
(* Claims about the answer markers and the decision line                   *)
(***************************************************************************)
ANSWER_WORD == <<"A","n","s","w","e","r",":"," ">>

\* the letter of the marker "Answer: X" or "Answer: (X)" that starts at
\* position i of the text, None when no marker starts there
AnswerMarkerAt(text, i) ==
    LET j == i + Len(ANSWER_WORD)
    IN  IF j > Len(text) \/ SubSeq(text, i, j - 1) # ANSWER_WORD THEN None
        ELSE IF text[j] \in LettersAE THEN text[j]
        ELSE IF text[j] = "(" /\ j < Len(text) /\ text[j + 1] \in LettersAE
             THEN text[j + 1]
        ELSE None

AnswerMarkers(text) == {i \in 1..Len(text) : AnswerMarkerAt(text, i) # None}

LastAnswerMarker(text) == AnswerMarkerAt(text, Max(AnswerMarkers(text)))

\* C21: for a text that contains an "Answer: X" marker with X a valid option,
\* the lead's parser returns as recommended_answer the X of the last such
\* marker, whatever other markers the text contains.
C21_AnswerMarkerWins ==
    (/\ parser = "lead_sbar"
     /\ AnswerMarkers(response) # {}
     /\ LastAnswerMarker(response) \in Range(options))
        => parsed.recommended_answer = LastAnswerMarker(response)

\* what the code does on such texts: the marker patterns are searched in the
\* upper-cased text, where "Answer:" does not occur, so the answer is the last
\* parenthesised letter, else the most frequent option letter (shown for
\* reference)
LeadAnswerWithoutMarker ==
    (parser = "lead_sbar" /\ AnswerMarkers(response) # {})
        => LET text == lead_pattern_text(response)
               bracketed == findall(answer_patterns[3], text)
           IN  /\ \A k \in {1, 2, 5, 6} : findall(answer_patterns[k], text) = <<>>
               /\ (bracketed # <<>> /\ bracketed[Len(bracketed)] \in Range(options))
                      => parsed.recommended_answer = bracketed[Len(bracketed)]

\* C22: for every option set and valid letter X the final-decision parser
\* returns choice X on a text whose decision line is "DECISION: X"; the choice
\* is absent only when that line holds no valid option letter or is missing.
C22_DecisionLetterReturned ==
    /\ \A X \in LettersAE, t \in RationaleTexts :
        (/\ parser = "final_decision"
         /\ response = DecisionText(X, t)
         /\ X \in Range(options))
            => parsed.choice = X
    /\ (parser = "final_decision" /\ parsed.choice = None)
            => \A X \in LettersAE, t \in RationaleTexts :
                   response = DecisionText(X, t) => X \notin Range(options)

\* what the code returns: the first character of the decision line that is an
\* option letter, which is a letter of the word DECISION when the options
\* include C, D or E (shown for reference)
DecisionFirstOptionLetter ==
    \A X \in LettersAE, t \in RationaleTexts :
        (parser = "final_decision" /\ response = DecisionText(X, t))
            => parsed.choice =
                   (IF "D" \in Range(options) THEN "D"
                    ELSE IF X \in Range(options) THEN X ELSE None)

\* C28: the lead's and the consultants' SBAR parsers return the same
\* recommended_answer for every text and option set.
C28_SameRecommendedAnswer ==
    /\ parser = "lead_sbar"
        => parsed.recommended_answer = specialist_recommended_answer(response, options)
    /\ parser = "specialist_sbar"
        => parsed.recommended_answer = lead_recommended_answer(response, options)

(***************************************************************************)
(* Claims about the selection and the fill-up of the flat panel            *)
(***************************************************************************)
\* how often the specialty of consultant i occurs among the consultants
TimesSelected(i) ==
    Cardinality({j \in 1..Len(Consultants) :
                    Consultants[j].specialty = Consultants[i].specialty})

\* C23: in a flat panel a specialty occurs among the four consultants at most
\* twice, and twice only if its score exceeds 0.8; a specialty scoring 0.8 or
\* less occurs at most once.
C23_SpecialtyAtMostTwice ==
    RecruitedModerate =>
        \A i \in 1..Len(Consultants) :
            /\ TimesSelected(i) <= 2
            /\ TimesSelected(i) = 2 => RLess(Rat(8, 10), Consultants[i].relevance_score)
            /\ ~RLess(Rat(8, 10), Consultants[i].relevance_score) => TimesSelected(i) = 1

\* C23 witness: a panel that holds a consultant scoring above 0.8, a scored
\* consultant at 0.8 or less and a filled-up consultant
C23_Witness_MixedScores ==
    /\ RecruitedModerate
    /\ ScoresCalculated
    /\ Len(team) = 5
    /\ Len(relevance_scores) \in 2..3
    /\ \E i \in 1..Len(Consultants) : RLess(Rat(8, 10), Consultants[i].relevance_score)
    /\ \E i \in 1..Len(Consultants) :
          /\ RLess(Rat(1, 10), Consultants[i].relevance_score)
          /\ ~RLess(Rat(8, 10), Consultants[i].relevance_score)

\* the scored specialties, which the selection loop takes first
ScoredSpecialties == {relevance_scores[j].specialty : j \in 1..Len(relevance_scores)}

\* the consultants that come from the fill-up
Backfilled == {i \in 1..Len(Consultants) : Consultants[i].specialty \notin ScoredSpecialties}

\* C24: when fewer than four specialties score above 0, the open slots are
\* filled with specialties not already selected, and every backfilled
\* consultant carries the relevance score 0.
C24_BackfilledScoreZero ==
    (RecruitedModerate /\ ScoresCalculated /\ Len(relevance_scores) < NUM_SPECIALISTS) =>
        /\ Cardinality(Backfilled) = NUM_SPECIALISTS - Len(relevance_scores)
        /\ \A i \in Backfilled :
              /\ TimesSelected(i) = 1
              /\ Consultants[i].relevance_score = Rat(0, 1)

\* what the code does: the open slots are filled with specialties not already
\* selected, each carrying the default score 0.1 (shown for reference)
BackfilledScoreDefault ==
    (RecruitedModerate /\ ScoresCalculated /\ Len(relevance_scores) < NUM_SPECIALISTS) =>
        /\ Cardinality(Backfilled) = NUM_SPECIALISTS - Len(relevance_scores)
        /\ \A i \in Backfilled :
              /\ TimesSelected(i) = 1
              /\ Consultants[i].relevance_score = Rat(1, 10)

(***************************************************************************)
(* Claims about what a consensus is reached on                             *)
(***************************************************************************)
\* no advisor produced an answer in the silent phase
NobodyAnswered == SilentPhaseOver /\ NonAbsentAnswers = <<>>

\* C26: whenever a consensus poll reports has_consensus = true its
\* majority_choice is one of the option letters: absent answers never form a
\* consensus on "no answer", and a case in which no advisor produced an answer
\* ends with consensus_achieved = false.
C26_ConsensusOnOptionLetter ==
    /\ (Polled /\ consensus_result.has_consensus)
           => consensus_result.majority_choice \in Range(CASE_OPTIONS)
    /\ (NobodyAnswered /\ final_decision.made)
           => ~final_decision.consensus_achieved

\* what the code does: a poll of this panel reports consensus exactly when
\* nobody answered, and the consensus is then on the absent answer (shown for
\* reference)
PollConsensusOnAbsentAnswer ==
    Polled =>
        /\ consensus_result.has_consensus <=> NobodyAnswered
        /\ consensus_result.has_consensus => consensus_result.majority_choice = None

\* the option the team reached consensus on: the choice of the initial check
\* on the early path, the majority choice of the decision's own poll on the
\* loop path
ConsensusOption ==
    IF final_decision.early_consensus
    THEN check_initial_consensus(silent_assessments).choice
    ELSE check_consensus(silent_assessments, member_assessment).majority_choice

\* C27: whenever the returned decision has consensus_achieved = true, its
\* choice is the option the team reached consensus on, on the early path and
\* on the loop path alike.
C27_ChoiceIsConsensusOption ==
    (pc = "done" /\ final_decision.made /\ final_decision.consensus_achieved)
        => final_decision.choice = ConsensusOption

\* the early path alone satisfies C27 (shown for reference)
EarlyChoiceIsConsensusOption ==
    (pc = "done" /\ final_decision.made /\ final_decision.early_consensus)
        => /\ final_decision.consensus_achieved
           /\ final_decision.choice = ConsensusOption
           /\ AgreedOn(final_decision.choice)

(***************************************************************************)
(* Claims about the polls of one case                                      *)
(***************************************************************************)
\* C25: within one case every consensus poll, the poll of each round and the
\* re-poll of the final decision, returns the same vote distribution:
\* discussion turns and moderator feedback change no polled preference, so a
\* poll taken after any of them returns what the last poll returned, and a case
\* whose first poll found no consensus finds none later.
C25_PollsAgree ==
    Polled =>
        /\ check_consensus(silent_assessments, member_assessment) = consensus_result
        /\ decision_prompt.sent =>
               /\ decision_prompt.vote_distribution =
                      vote_distribution(consensus_result.votes)
               /\ final_decision.consensus_achieved = consensus_result.has_consensus

\* C25 witness: a case returned after three polls without consensus, with two
\* moderator feedbacks and discussion turns between them
C25_Witness_ThreePollsAlike ==
    /\ pc = "done"
    /\ decision_prompt.sent
    /\ EventCount({"poll"}) = 3
    /\ EventCount({"feedback"}) = 2
    /\ \A i \in Members : Len(discussion_history[i]) >= 3
    /\ ~consensus_result.has_consensus
    /\ Len(decision_prompt.vote_distribution) = 3

(***************************************************************************)
(* Claims about the tie rule of the initial check                          *)
(***************************************************************************)
\* the initial check of the case has just returned
InitiallyChecked == events # <<>> /\ events[Len(events)] = "initial_check"

\* the answers that are present, the lead's first, then the members' in team order
AnswersInTeamOrder ==
    SelectSeq(<<LeadAnswer>> \o [i \in Members |-> member_assessment[i]],
              LAMBDA a : a # None)

TimesAnswered(X) ==
    Cardinality({j \in 1..Len(AnswersInTeamOrder) : AnswersInTeamOrder[j] = X})

\* the options with the highest count
TopOptions ==
    {X \in Range(AnswersInTeamOrder) :
        \A Y \in Range(AnswersInTeamOrder) : TimesAnswered(Y) <= TimesAnswered(X)}

FirstTopOption ==
    AnswersInTeamOrder[Min({j \in 1..Len(AnswersInTeamOrder) :
                               AnswersInTeamOrder[j] \in TopOptions})]

NoOptionAgreedOn == \A X \in Range(CASE_OPTIONS) : ~AgreedOn(X)

\* C29: when no option reaches 80%, check_initial_consensus reports, among
\* the options with the highest count, the one recommended first in assessment
\* order (the lead first, then the members in team order); when an option
\* reaches 80% it is the choice whatever the order.
C29_FirstTiedOptionReported ==
    InitiallyChecked =>
        /\ (NoOptionAgreedOn /\ AnswersInTeamOrder # <<>>) =>
               /\ ~initial_consensus.has_consensus
               /\ initial_consensus.choice = FirstTopOption
        /\ \A X \in Range(CASE_OPTIONS) :
               AgreedOn(X) => /\ initial_consensus.has_consensus
                              /\ initial_consensus.choice = X

\* C29 witness: A and B tie with two recommendations each, the lead recommends
\* B and the check reports B
C29_Witness_TieGoesToFirst ==
    /\ InitiallyChecked
    /\ NoOptionAgreedOn
    /\ LeadAnswer = "B"
    /\ TopOptions = {"A", "B"}
    /\ TimesAnswered("A") = 2
    /\ initial_consensus.choice = "B"

(***************************************************************************)
(* Claims about a second case on the same lead                             *)
(***************************************************************************)
FeedbacksInHistory ==
    Cardinality({j \in 1..Len(interaction_history) :
                    interaction_history[j] = "moderator_feedback"})

\* C30: a second case coordinated by the same lead starts from clean per-case
\* state: its discussion logs, the round count reported for its final
\* decision, its interaction history and its tally hold what the second case
\* itself has produced and nothing of the first case.
C30_SecondCaseStartsClean ==
    earlier_case =>
        /\ Len(discussion_logs) = EventCount({"discussion"})
        /\ decision_prompt.sent =>
               decision_prompt.total_rounds = EventCount({"discussion"})
        /\ FeedbacksInHistory = EventCount({"feedback"})
        /\ SilentPhaseOver => Len(silent_assessments) = EventCount({"assessment"})

\* what the code does keep per case: the interaction history is reset, and
\* every silent assessment is overwritten before the tally reads it (shown
\* for reference)
SecondCaseTallyClean ==
    earlier_case =>
        /\ FeedbacksInHistory = EventCount({"feedback"})
        /\ SilentPhaseOver =>
               /\ Len(silent_assessments) = EventCount({"assessment"})
               /\ NonAbsentAnswers = AnswersInTeamOrder
        /\ InitiallyChecked =>
               initial_consensus = check_initial_consensus(silent_assessments)

\* the discussion logs are never reset: the round count reported in the second
\* case includes the rounds of the first (shown for reference)
SecondCaseCountsEarlierRounds ==
    (earlier_case /\ decision_prompt.sent) =>
        /\ decision_prompt.total_rounds = Len(discussion_logs)
        /\ decision_prompt.total_rounds >= EventCount({"discussion"})

====
